---------------------------- MODULE Spec2Model ----------------------------
(***************************************************************************)
(* Model of the projection engine of src/projection.py.                    *)
(*                                                                         *)
(* Part I  : create_time_weighted_dataset_dynamic (window selection and    *)
(*           time weights).                                                *)
(* Part II : analyze (league averages, team rates, ratios, schedule        *)
(*           strength, player rates, core strength, projections).          *)
(* Part III: create_player_dataset_from_game_data (roster filter,          *)
(*           aggregation per player, current team).                        *)
(* Part IV : run and run_with_time_weighted_data (the stages of a run and  *)
(*           the files it reads and writes).                               *)
(* Part V  : team names, build_team_opponents_schedule,                    *)
(*           build_team_statistics, determine_next_opponent and            *)
(*           create_team_dataset_from_game_data.                           *)
(* Part VI : OddsScraper._enforce_rate_limit and make_request of           *)
(*           src/odds.py.                                                  *)
(* Part VII: run_with_time_weighted_data called again and again in one     *)
(*           interpreter.                                                  *)
(*                                                                         *)
(* Time weights are the floats 1.0 - i*0.1; they are kept here in tenths,  *)
(* as integers (10 is 1.0, 0 is 0.0, -1 is -0.1).                          *)
(***************************************************************************)
EXTENDS Integers, Sequences, FiniteSets, TLC

VARIABLES
    \* ---- create_time_weighted_dataset_dynamic ----
    wpc,                    \* position in create_time_weighted_dataset_dynamic
    projection_week,        \* argument projection_week
    target_weeks_2024,      \* argument target_weeks_2024 (a set of week numbers)
    df_2025,                \* weeks that have rows in the 2025 file
    df_2024,                \* weeks that have rows in the 2024 file
    weeks_to_include_2025,  \* list, in the order the code builds it
    weeks_to_include_2024,  \* list, most recent first
    df_2025_filtered,       \* weeks of the rows kept from the 2025 file
    df_2024_filtered,       \* weeks of the rows kept from the 2024 file
    weight_map,             \* (season, week) -> weight in tenths
    df_combined,            \* the returned rows: [year, week, time_weight]
    \* ---- analyze ----
    apc,                    \* position in analyze
    df_team,                \* argument df_team: team -> [stats, opps, next_op]
    df_players,             \* argument df_players: name -> [team, g, stats]
    games,                  \* team -> len(opps)                     (line 622)
    df_leag_avg,            \* stat -> league value                  (line 666)
    df_team_avg,            \* team -> stat -> value, rewritten in place
    ratio,                  \* team -> stat -> ratio_<stat>
    schedstr,               \* team -> stat -> schedstr_ratio_<stat>
    df_player_avg,          \* name -> column -> value
    df_player_proj,         \* name -> column -> value (rounded rates, core_*, proj_*)
    df_round,               \* the table written to the projection file
    \* ---- create_player_dataset_from_game_data ----
    ppc,                    \* position in create_player_dataset_from_game_data
    df_game_data,           \* argument df_game_data: a set of player game rows
    active_roster,          \* argument active_roster: a set of names
    player_team_mapping,    \* argument player_team_mapping: name -> team
    df_filtered,            \* the rows of active players          (line 518)
    player_stats,           \* one record per group of rows        (line 550)
    games_played,           \* player -> number of distinct weeks  (line 581)
    player_complete,        \* the returned records [name, team, g, stats]
    \* ---- run, run_with_time_weighted_data ----
    rpc,                    \* position in the entry point
    entry,                  \* the entry point called
    roster_file,            \* "present" or "missing"
    week_2025_file,         \* "present" or "missing"
    weeks_2024_file,        \* "present" or "missing"
    schedule_file,          \* "present", "missing", or "None" (argument not given)
    saved_datasets,         \* nfl25_team.csv and nfl25_players.csv of an earlier run
    roster_matches,         \* some row of the season data is of an active player
    analyze_raises,         \* analyze raises KeyError on the datasets it is given
    written,                \* the files written by the run
    \* ---- the team dataset ----
    tpc,                    \* position in the team pipeline
    df_season_data,         \* the player game rows of the window
    df_schedule,            \* schedule rows [round, home, away]
    current_week,           \* argument current_week
    team_schedule,          \* team -> opps                          (line 118)
    team_stats,             \* the records of build_team_statistics  (line 216)
    team_complete,          \* the returned team table
    \* ---- OddsScraper ----
    opc,                    \* position in make_request
    request_count,          \* self.request_count
    http_sent,              \* HTTP requests sent by requests.get
    \* ---- repeated runs ----
    dpc,                    \* position in the current run
    current_week_param,     \* the module global of line 11
    run_input,              \* the arguments and files of the current run
    roster_order,           \* the order in which the roster set is iterated
    disk,                   \* nfl25_players.csv as the last run left it
    observed                \* <<input, output>> of every run finished so far

wvars == <<wpc, projection_week, target_weeks_2024, df_2025, df_2024,
           weeks_to_include_2025, weeks_to_include_2024, df_2025_filtered,
           df_2024_filtered, weight_map, df_combined>>

avars == <<apc, df_team, df_players, games, df_leag_avg, df_team_avg, ratio,
           schedstr, df_player_avg, df_player_proj, df_round>>

pvars == <<ppc, df_game_data, active_roster, player_team_mapping, df_filtered,
           player_stats, games_played, player_complete>>

rvars == <<rpc, entry, roster_file, week_2025_file, weeks_2024_file, schedule_file,
           saved_datasets, roster_matches, analyze_raises, written>>

tvars == <<tpc, df_season_data, df_schedule, current_week, team_schedule,
           team_stats, team_complete>>

ovars == <<opc, request_count, http_sent>>

dvars == <<dpc, current_week_param, run_input, roster_order, disk, observed>>

\* the variables of Parts V to VII
xvars == <<tvars, ovars, dvars>>

vars == <<wvars, avars, pvars, rvars, xvars>>

\* the team pipeline has not been called
TIdle ==
    /\ tpc = "idle"
    /\ df_season_data = {}
    /\ df_schedule = {}
    /\ current_week = 1
    /\ team_schedule = <<>>
    /\ team_stats = {}
    /\ team_complete = <<>>

\* no OddsScraper has been constructed
OIdle ==
    /\ opc = "idle"
    /\ request_count = 0
    /\ http_sent = 0

\* the module has not been run
DIdle ==
    /\ dpc = "idle"
    /\ current_week_param = 0
    /\ run_input = <<>>
    /\ roster_order = <<>>
    /\ disk = {}
    /\ observed = {}

XIdle == TIdle /\ OIdle /\ DIdle

\* no entry point has been called
RIdle ==
    /\ rpc = "idle"
    /\ entry = "none"
    /\ roster_file = "present"
    /\ week_2025_file = "present"
    /\ weeks_2024_file = "present"
    /\ schedule_file = "None"
    /\ saved_datasets = "missing"
    /\ roster_matches = TRUE
    /\ analyze_raises = FALSE
    /\ written = {}

\* create_time_weighted_dataset_dynamic has not been called
WIdle ==
    /\ wpc = "idle"
    /\ projection_week = 1
    /\ target_weeks_2024 = {}
    /\ df_2025 = {}
    /\ df_2024 = {}
    /\ weeks_to_include_2025 = <<>>
    /\ weeks_to_include_2024 = <<>>
    /\ df_2025_filtered = {}
    /\ df_2024_filtered = {}
    /\ weight_map = <<>>
    /\ df_combined = {}

\* create_player_dataset_from_game_data has not been called
PIdle ==
    /\ ppc = "idle"
    /\ df_game_data = {}
    /\ active_roster = {}
    /\ player_team_mapping = <<>>
    /\ df_filtered = {}
    /\ player_stats = {}
    /\ games_played = <<>>
    /\ player_complete = {}

\* analyze has not been called
AIdle ==
    /\ apc = "idle"
    /\ df_team = <<>>
    /\ df_players = <<>>
    /\ games = <<>>
    /\ df_leag_avg = <<>>
    /\ df_team_avg = <<>>
    /\ ratio = <<>>
    /\ schedstr = <<>>
    /\ df_player_avg = <<>>
    /\ df_player_proj = <<>>
    /\ df_round = <<>>

-----------------------------------------------------------------------------
(* Bounds of the window model *)

\* largest week number present in the 2025 file
Max25 == 12
\* the 2025 file holds weeks 1..hi with at most one week g <= MaxGap25 absent
MaxGap25 == 2
\* largest projection week
MaxProjWeek == 13
\* number of 2024 week numbers the caller may pass
Span24 == 11
\* last regular week passed for the prior season (default argument list)
Last24 == 17
\* size of the window
WindowSize == 10
\* prior-season weeks used for projection week 2
Week2Prior == 9

Weeks24 == (Last24 - Span24 + 1)..Last24

-----------------------------------------------------------------------------
(* Helpers standing for Python built-ins *)

SetMax(S) == CHOOSE m \in S : \A x \in S : x <= m
SetMin(S) == CHOOSE m \in S : \A x \in S : m <= x

RECURSIVE SortedDesc(_)
\* sorted(S, reverse=True)
SortedDesc(S) == IF S = {} THEN <<>>
                 ELSE LET m == SetMax(S) IN <<m>> \o SortedDesc(S \ {m})

RECURSIVE SortedAsc(_)
\* sorted(S)
SortedAsc(S) == IF S = {} THEN <<>>
                ELSE LET m == SetMin(S) IN <<m>> \o SortedAsc(S \ {m})

\* s[:k], k of either sign
PySliceTo(s, k) ==
    IF k >= 0
      THEN SubSeq(s, 1, IF k < Len(s) THEN k ELSE Len(s))
      ELSE SubSeq(s, 1, IF Len(s) + k > 0 THEN Len(s) + k ELSE 0)

Range(s) == {s[i] : i \in 1..Len(s)}

\* [w for w in s if w < bound]
SelectBelow(s, bound) == SelectSeq(s, LAMBDA w : w < bound)

-----------------------------------------------------------------------------
(* create_time_weighted_dataset_dynamic *)

\* the week sets the 2025 file can hold
Files25 == {(1..hi) \ {g} : hi \in 0..Max25, g \in 0..MaxGap25}

\* the lists the caller can pass: lo..Last24 with at most one recent week left out
Targets24 == {(lo..Last24) \ g : lo \in Weeks24 \cup {Last24 + 1},
                                 g \in {{}, {Last24}, {Last24 - 1}}}

\* the week sets the 2024 file can hold: every week, or some recent week absent,
\* or no row at all
Files24 == {Weeks24 \ g : g \in SUBSET {Last24, Last24 - 1}} \cup {{}}

WInit ==
    /\ wpc = "select"
    /\ projection_week \in 1..MaxProjWeek
    /\ target_weeks_2024 \in Targets24
    /\ df_2025 \in Files25
    /\ df_2024 \in Files24
    /\ weeks_to_include_2025 = <<>>
    /\ weeks_to_include_2024 = <<>>
    /\ df_2025_filtered = {}
    /\ df_2024_filtered = {}
    /\ weight_map = <<>>
    /\ df_combined = {}
    /\ AIdle
    /\ PIdle
    /\ RIdle
    /\ XIdle

\* lines 331-337
SelectWeek1 ==
    /\ wpc = "select"
    /\ projection_week = 1
    /\ weeks_to_include_2025' = <<>>
    /\ weeks_to_include_2024' = PySliceTo(SortedDesc(target_weeks_2024), WindowSize)
    /\ df_2025_filtered' = {}
    /\ df_2024_filtered' = df_2024 \cap Range(weeks_to_include_2024')
    /\ wpc' = "weights"
    /\ UNCHANGED <<projection_week, target_weeks_2024, df_2025, df_2024,
                   weight_map, df_combined>>
    /\ UNCHANGED <<avars, pvars, rvars, xvars>>

\* lines 339-346; available_2025_weeks[0] raises IndexError on an empty file
SelectWeek2 ==
    /\ wpc = "select"
    /\ projection_week = 2
    /\ df_2025 # {}
    /\ weeks_to_include_2025' = <<SortedAsc(df_2025)[1]>>
    /\ weeks_to_include_2024' = PySliceTo(SortedDesc(target_weeks_2024), Week2Prior)
    /\ df_2025_filtered' = df_2025 \cap Range(weeks_to_include_2025')
    /\ df_2024_filtered' = df_2024 \cap Range(weeks_to_include_2024')
    /\ wpc' = "weights"
    /\ UNCHANGED <<projection_week, target_weeks_2024, df_2025, df_2024,
                   weight_map, df_combined>>
    /\ UNCHANGED <<avars, pvars, rvars, xvars>>

SelectWeek2Raise ==
    /\ wpc = "select"
    /\ projection_week = 2
    /\ df_2025 = {}
    /\ wpc' = "IndexError"
    /\ UNCHANGED <<projection_week, target_weeks_2024, df_2025, df_2024,
                   weeks_to_include_2025, weeks_to_include_2024,
                   df_2025_filtered, df_2024_filtered, weight_map, df_combined>>
    /\ UNCHANGED <<avars, pvars, rvars, xvars>>

\* number of prior-season weeks asked for by the else branch (line 353)
WeeksNeededFrom2024(n) == WindowSize - n

\* lines 348-356
SelectWeek3Plus ==
    /\ wpc = "select"
    /\ projection_week \notin {1, 2}
    /\ weeks_to_include_2025' = SelectBelow(SortedAsc(df_2025), projection_week)
    /\ weeks_to_include_2024' =
           PySliceTo(SortedDesc(target_weeks_2024),
                     WeeksNeededFrom2024(Len(weeks_to_include_2025')))
    /\ df_2025_filtered' = df_2025 \cap Range(weeks_to_include_2025')
    /\ df_2024_filtered' = df_2024 \cap Range(weeks_to_include_2024')
    /\ wpc' = "weights"
    /\ UNCHANGED <<projection_week, target_weeks_2024, df_2025, df_2024,
                   weight_map, df_combined>>
    /\ UNCHANGED <<avars, pvars, rvars, xvars>>

\* weight of the i-th (from 0) most recent week of a season whose first weight
\* is start (lines 382, 389)
DecayWeight(start, i) == start - i

\* the 2024 weights restarting at 1.0 instead of continuing the decay
StartWeight2024_Restart(n25) == 10

\* start_weight of the 2024 weeks (line 387)
StartWeight2024(n25) == 10 - n25

\* lines 375-390
WeightMap(w25, f25, w24, f24) ==
    LET s25 == SortedDesc(Range(w25))
        s24 == SortedDesc(Range(w24))
        k25 == IF f25 # {} THEN {<<2025, s25[i]>> : i \in 1..Len(s25)} ELSE {}
        k24 == IF f24 # {} THEN {<<2024, s24[i]>> : i \in 1..Len(s24)} ELSE {}
        pos(s, w) == CHOOSE i \in 1..Len(s) : s[i] = w
    IN [k \in k25 \cup k24 |->
          IF k[1] = 2025 THEN DecayWeight(10, pos(s25, k[2]) - 1)
          ELSE DecayWeight(StartWeight2024(Len(w25)), pos(s24, k[2]) - 1)]

CalcWeights ==
    /\ wpc = "weights"
    /\ weight_map' = WeightMap(weeks_to_include_2025, df_2025_filtered,
                               weeks_to_include_2024, df_2024_filtered)
    /\ wpc' = "combine"
    /\ UNCHANGED <<projection_week, target_weeks_2024, df_2025, df_2024,
                   weeks_to_include_2025, weeks_to_include_2024,
                   df_2025_filtered, df_2024_filtered, df_combined>>
    /\ UNCHANGED <<avars, pvars, rvars, xvars>>

\* rows of one season with their time_weight column (lines 393-397)
Weighted(year, weeks, wm) ==
    {[year |-> year, week |-> w, time_weight |-> wm[<<year, w>>]] : w \in weeks}

\* lines 392-409
CombineDatasets ==
    /\ wpc = "combine"
    /\ df_combined' =
         IF df_2024_filtered # {}
           THEN Weighted(2025, df_2025_filtered, weight_map)
                  \cup Weighted(2024, df_2024_filtered, weight_map)
           ELSE Weighted(2025, df_2025_filtered, weight_map)
    /\ wpc' = "returned"
    /\ UNCHANGED <<projection_week, target_weeks_2024, df_2025, df_2024,
                   weeks_to_include_2025, weeks_to_include_2024,
                   df_2025_filtered, df_2024_filtered, weight_map>>
    /\ UNCHANGED <<avars, pvars, rvars, xvars>>

WNext == \/ SelectWeek1
         \/ SelectWeek2
         \/ SelectWeek2Raise
         \/ SelectWeek3Plus
         \/ CalcWeights
         \/ CombineDatasets

SpecWindow == WInit /\ [][WNext]_vars

-----------------------------------------------------------------------------
(* Properties of create_time_weighted_dataset_dynamic *)

Returned == wpc = "returned"

Rows(year) == {r \in df_combined : r.year = year}
WeeksOf(year) == {r.week : r \in Rows(year)}

\* q is a more recent game week than r (every 2025 week is newer than every
\* 2024 week)
Newer(q, r) == q.year > r.year \/ (q.year = r.year /\ q.week > r.week)

\* the k most recent weeks of the list the caller passed
MostRecent24(k) == Range(PySliceTo(SortedDesc(target_weeks_2024), k))

\* C1: every row of the returned dataset carries a time_weight that is
\* strictly greater than 0 and at most 1 (in tenths: 1..10).
C1_TimeWeightInUnitInterval ==
    Returned => \A r \in df_combined : r.time_weight > 0 /\ r.time_weight <= 10

\* C2: for a projection week W >= 3 the dataset holds exactly the available
\* 2025 weeks < W, and the prior-season weeks taken are the max(0, 10 - n)
\* most recent ones passed, n being the number of 2025 weeks included: none
\* when n >= 10, and max(10, n) weeks at most in total.
C2_BackfillToTen ==
    (Returned /\ projection_week >= 3) =>
        LET n == Len(weeks_to_include_2025)
            k == IF WindowSize - n > 0 THEN WindowSize - n ELSE 0
        IN /\ Range(weeks_to_include_2025) = {w \in df_2025 : w < projection_week}
           /\ WeeksOf(2025) = {w \in df_2025 : w < projection_week}
           /\ Range(weeks_to_include_2024) = MostRecent24(k)
           /\ WeeksOf(2024) \subseteq MostRecent24(k)
           /\ (n >= WindowSize => WeeksOf(2024) = {})
           /\ n + Len(weeks_to_include_2024) <= (IF n > WindowSize THEN n ELSE WindowSize)

C4_WeightByContributingRank ==
    Returned =>
        \A r \in df_combined :
            r.time_weight = 10 - Cardinality({q \in df_combined : Newer(q, r)})

-----------------------------------------------------------------------------
(***************************************************************************)
(* Part II: analyze.                                                       *)
(*                                                                         *)
(* A float is kept as an exact fraction <<n, d>> in lowest terms, d > 0,   *)
(* or as one of the two non-finite values numpy produces on a division by  *)
(* zero: Inf = <<1, 0>> and NaN = <<0, 0>>.  The inputs are non-negative   *)
(* and analyze never subtracts, so no negative value arises.  Rounding     *)
(* error of binary floating point is not modelled.                         *)
(***************************************************************************)

RECURSIVE GCD(_, _)
GCD(a, b) == IF b = 0 THEN a ELSE GCD(b, a % b)

Zero == <<0, 1>>
One  == <<1, 1>>
Inf  == <<1, 0>>
NaN  == <<0, 0>>

IsFinite(v) == v[2] # 0

\* the float n/d
Frac(n, d) == IF n = 0 THEN Zero ELSE LET g == GCD(n, d) IN <<n \div g, d \div g>>
Whole(n) == <<n, 1>>

\* a + b on floats
Add(a, b) ==
    IF a = NaN \/ b = NaN THEN NaN
    ELSE IF a = Inf \/ b = Inf THEN Inf
    ELSE LET g == GCD(a[2], b[2])
         IN Frac(a[1] * (b[2] \div g) + b[1] * (a[2] \div g), (a[2] \div g) * b[2])

\* a * b on floats (inf * 0 is nan)
Mul(a, b) ==
    IF a = NaN \/ b = NaN THEN NaN
    ELSE IF a = Inf \/ b = Inf
           THEN (IF a = Zero \/ b = Zero THEN NaN ELSE Inf)
    ELSE IF a[1] = 0 \/ b[1] = 0 THEN Zero
    ELSE LET g1 == GCD(a[1], b[2])
             g2 == GCD(b[1], a[2])
         IN <<(a[1] \div g1) * (b[1] \div g2), (a[2] \div g2) * (b[2] \div g1)>>

\* a / b on numpy floats: x/0 is inf, 0/0 is nan, x/inf is 0, no exception
Div(a, b) ==
    IF a = NaN \/ b = NaN THEN NaN
    ELSE IF b = Inf THEN (IF a = Inf THEN NaN ELSE Zero)
    ELSE IF a = Inf THEN Inf
    ELSE IF b = Zero THEN (IF a = Zero THEN NaN ELSE Inf)
    ELSE Mul(a, <<b[2], b[1]>>)

\* a < b, a <= b on finite floats
Less(a, b) == a[1] * b[2] < b[1] * a[2]

\* the epsilon the code substitutes for a zero denominator
Epsilon == <<1, 10000>>

\* Series.replace(0, 0.0001)
ReplaceZero(v) == IF v = Zero THEN Epsilon ELSE v

\* DataFrame.replace([np.inf, -np.inf], 0)
ReplaceInf(v) == IF v = Inf THEN Zero ELSE v

\* DataFrame.fillna(0)
FillNa(v) == IF v = NaN THEN Zero ELSE v

\* DataFrame.round(2): to the nearest hundredth, ties to the even hundredth
Round2(v) ==
    IF ~IsFinite(v) THEN v
    ELSE LET d  == v[2]
             r0 == v[1] % d
             t1 == (10 * r0) \div d          \* the tenths digit
             r1 == (10 * r0) % d
             t2 == (10 * r1) \div d          \* the hundredths digit
             r  == (10 * r1) % d
             q  == (v[1] \div d) * 100 + t1 * 10 + t2
             up == r > d - r \/ (r = d - r /\ q % 2 = 1)
         IN Frac(IF up THEN q + 1 ELSE q, 100)

RECURSIVE SumSeq(_)
\* sum of a list of floats, left to right from 0
SumSeq(s) == IF s = <<>> THEN Zero
             ELSE Add(SumSeq(SubSeq(s, 1, Len(s) - 1)), s[Len(s)])

RECURSIVE SumOver(_, _)
\* Series.sum(): the sum of f[x] over the set S
SumOver(f, S) == IF S = {} THEN Zero
                 ELSE LET x == CHOOSE y \in S : TRUE
                      IN Add(f[x], SumOver(f, S \ {x}))

-----------------------------------------------------------------------------
(* Columns of the team table, in the order of df_team_avg.columns[0:28] *)

OffStats == <<"pass_cmp", "pass_att", "pass_yd", "pass_td", "pass_int", "sacks",
              "rush_att", "rush_yd", "rush_td", "targets", "rec", "rec_yd",
              "rec_td", "off_fum">>

\* def_col_mapping: DefStats[i] is the mirror of OffStats[i]
DefStats == <<"def_pass_cmp", "def_pass_att", "def_pass_yd", "def_pass_td",
              "def_int", "def_sacks", "def_rush_att", "def_rush_yd",
              "def_rush_td", "def_targets", "def_rec", "def_rec_yd",
              "def_rec_td", "def_fum">>

StatCols == Range(OffStats) \cup Range(DefStats)

\* columns of the player table that hold counters
PlayerStats == <<"pass_cmp", "pass_att", "pass_yd", "pass_td", "pass_int", "sacks",
                 "rush_att", "rush_yd", "rush_td", "tar", "rec", "rec_yd",
                 "rec_td", "fum">>

IndexOf(s, x) == CHOOSE i \in 1..Len(s) : s[i] = x

\* a row of counters from its 14 values, in the order of names
Line(names, vals) == [c \in Range(names) |-> Whole(vals[IndexOf(names, c)])]

\* column-wise sum of two rows
AddRows(r1, r2) == [c \in DOMAIN r1 |-> Add(r1[c], r2[c])]

-----------------------------------------------------------------------------
(* The tables analyze is called with *)

\* weeks of games behind the team table
MaxWeeks == 2

\* teams that have a row in the team table
Teams == {"A", "B", "C"}
\* a team key that has no row in the team table
NoRowTeam == "X"

\* next_op of a team without a coming game
None == "None"
\* what fillna(0.0) makes of None
ZeroFloat == "0.0"

\* what one team's offence contributes to the sums for one game (the counters
\* of the game times its time weight; whole numbers here)
ZeroLine == Line(OffStats, <<0, 0, 0, 0, 0, 0, 0, 0, 0, 0, 0, 0, 0, 0>>)
LineP    == Line(OffStats, <<6, 10, 70, 1, 1, 2, 8, 30, 1, 9, 6, 70, 1, 1>>)
LineR    == Line(OffStats, <<9, 15, 120, 2, 0, 1, 12, 50, 0, 14, 9, 120, 2, 0>>)
\* an offence whose rows hold rushing only
LineRush == Line(OffStats, <<0, 0, 0, 0, 0, 0, 8, 30, 1, 0, 0, 0, 0, 1>>)

\* the offence of each team, the same in each of its games
LineAssignments ==
    { [t \in Teams \cup {NoRowTeam} |-> LineP],
      ("A" :> LineP @@ "B" :> LineR @@ "C" :> LineP @@ "X" :> LineR),
      ("A" :> ZeroLine @@ "B" :> LineR @@ "C" :> LineP @@ "X" :> LineP),
      ("A" :> LineRush @@ "B" :> LineP @@ "C" :> LineR @@ "X" :> LineP),
      [t \in Teams \cup {NoRowTeam} |-> ZeroLine] }

\* one week: no game, a game with the player rows of both sides, a game of
\* which only the rows of the first side are in the data, or a game against
\* a team that has no row in the team table
Fixtures ==
    { <<>>,
      [a |-> "A", b |-> "B", rows |-> {"A", "B"}],
      [a |-> "A", b |-> "C", rows |-> {"A", "C"}],
      [a |-> "B", b |-> "C", rows |-> {"B", "C"}],
      [a |-> "B", b |-> "C", rows |-> {"B"}],
      [a |-> "A", b |-> NoRowTeam, rows |-> {"A"}] }

\* the coming week
NextFixtures ==
    { <<>>,
      [a |-> "A", b |-> "B", rows |-> {}],
      [a |-> "B", b |-> "C", rows |-> {}],
      [a |-> "A", b |-> NoRowTeam, rows |-> {}] }

Plays(f, t) == f # <<>> /\ t \in {f.a, f.b}
Other(f, t) == IF f.a = t THEN f.b ELSE f.a

RECURSIVE OppsOf(_, _)
\* opps of team t: the opponents of the games t has rows for, in data order
OppsOf(sched, t) ==
    IF sched = <<>> THEN <<>>
    ELSE LET f == sched[Len(sched)]
             rest == OppsOf(SubSeq(sched, 1, Len(sched) - 1), t)
         IN IF Plays(f, t) /\ t \in f.rows THEN rest \o <<Other(f, t)>> ELSE rest

RECURSIVE OffSum(_, _, _)
\* sum of the offence of team t over the games it has rows for
OffSum(sched, lines, t) ==
    IF sched = <<>> THEN ZeroLine
    ELSE LET f == sched[Len(sched)]
             rest == OffSum(SubSeq(sched, 1, Len(sched) - 1), lines, t)
         IN IF Plays(f, t) /\ t \in f.rows
              THEN AddRows(rest, lines[t])
              ELSE rest

RECURSIVE DefSum(_, _, _)
\* sum of what the opponents of t produced against t
DefSum(sched, lines, t) ==
    IF sched = <<>> THEN ZeroLine
    ELSE LET f == sched[Len(sched)]
             rest == DefSum(SubSeq(sched, 1, Len(sched) - 1), lines, t)
         IN IF Plays(f, t) /\ Other(f, t) \in f.rows
              THEN AddRows(rest, lines[Other(f, t)])
              ELSE rest

\* the 28 counters of a team row
TeamStats(off, def) ==
    [c \in StatCols |->
        IF c \in Range(OffStats) THEN off[c]
        ELSE def[OffStats[IndexOf(DefStats, c)]]]

\* the team table built from the games of the window and the coming week
TeamTable(sched, lines, next) ==
    [t \in Teams |->
        [stats   |-> TeamStats(OffSum(sched, lines, t), DefSum(sched, lines, t)),
         opps    |-> OppsOf(sched, t),
         next_op |-> IF Plays(next, t) THEN Other(next, t) ELSE None]]

\* player rows: team, games played g, time-weighted counters
PlayerRow(team, g, vals) == [team |-> team, g |-> Whole(g), stats |-> Line(PlayerStats, vals)]

Quarterback == PlayerRow("A", 3, <<13, 20, 150, 1, 1, 2, 3, 10, 0, 0, 0, 0, 0, 1>>)
Runner      == PlayerRow("B", 2, <<0, 0, 0, 0, 0, 0, 7, 30, 1, 3, 2, 15, 0, 0>>)
Receiver    == PlayerRow("C", 3, <<0, 0, 0, 0, 0, 0, 0, 0, 0, 7, 5, 60, 1, 1>>)
Bench       == PlayerRow("C", 0, <<0, 0, 0, 0, 0, 0, 0, 0, 0, 0, 0, 0, 0, 0>>)
Stray       == PlayerRow(NoRowTeam, 1, <<0, 0, 0, 0, 0, 0, 4, 20, 0, 1, 1, 5, 0, 0>>)

PlayerTables ==
    { ("qb" :> Quarterback @@ "rb" :> Runner @@ "wr" :> Receiver),
      ("qb" :> Quarterback @@ "rb" :> Runner @@ "wr" :> Receiver @@ "bench" :> Bench),
      ("qb" :> Quarterback @@ "rb" :> Runner @@ "stray" :> Stray) }

AInit ==
    /\ apc = "setup"
    /\ \E sched \in [1..MaxWeeks -> Fixtures], lines \in LineAssignments,
          next \in NextFixtures :
          df_team = TeamTable(sched, lines, next)
    /\ df_players \in PlayerTables
    /\ games = <<>>
    /\ df_leag_avg = <<>>
    /\ df_team_avg = <<>>
    /\ ratio = <<>>
    /\ schedstr = <<>>
    /\ df_player_avg = <<>>
    /\ df_player_proj = <<>>
    /\ df_round = <<>>
    /\ WIdle
    /\ PIdle
    /\ RIdle
    /\ XIdle

\* lines 612-622: fillna, the team index, opps parsed, games = len(opps)
Setup ==
    /\ apc = "setup"
    /\ df_team_avg' = [t \in DOMAIN df_team |-> df_team[t].stats]
    /\ games' = [t \in DOMAIN df_team |-> Len(df_team[t].opps)]
    /\ apc' = "league"
    /\ UNCHANGED <<df_team, df_players, df_leag_avg, ratio, schedstr,
                   df_player_avg, df_player_proj, df_round>>
    /\ UNCHANGED <<wvars, pvars, rvars, xvars>>

\* next_op of a team after df_team.fillna(0.0) (line 612)
NextOp(t) == IF df_team[t].next_op = None THEN ZeroFloat ELSE df_team[t].next_op

\* the denominator of each league value (lines 638-665): the columns whose
\* league sums are added up, "games" for num_games
LeagueDen ==
    [pass_cmp |-> <<"games">>,     pass_att |-> <<"games">>,
     pass_yd  |-> <<"pass_att">>,  pass_td  |-> <<"pass_att">>,
     pass_int |-> <<"pass_att">>,  sacks    |-> <<"games">>,
     rush_att |-> <<"games">>,     rush_yd  |-> <<"rush_att">>,
     rush_td  |-> <<"rush_att">>,  targets  |-> <<"pass_att">>,
     rec      |-> <<"pass_att">>,  rec_yd   |-> <<"pass_att">>,
     rec_td   |-> <<"pass_att">>,  off_fum  |-> <<"pass_att", "rush_att">>,
     def_pass_cmp |-> <<"games">>,        def_pass_att |-> <<"games">>,
     def_pass_yd  |-> <<"def_pass_att">>, def_pass_td  |-> <<"def_pass_att">>,
     def_int      |-> <<"def_pass_att">>, def_sacks    |-> <<"games">>,
     def_rush_att |-> <<"games">>,        def_rush_yd  |-> <<"def_rush_att">>,
     def_rush_td  |-> <<"def_rush_att">>, def_targets  |-> <<"def_pass_att">>,
     def_rec      |-> <<"def_pass_att">>, def_rec_yd   |-> <<"def_pass_att">>,
     def_rec_td   |-> <<"def_pass_att">>, def_fum      |-> <<"def_pass_att", "def_rush_att">>]

\* Series.sum() of a column of the team table, games included
ColumnSum(tbl, g, c) ==
    IF c = "games" THEN SumOver([t \in DOMAIN tbl |-> Whole(g[t])], DOMAIN tbl)
    ELSE SumOver([t \in DOMAIN tbl |-> tbl[t][c]], DOMAIN tbl)

\* the per-game league values averaged over the teams instead of the games
LeagueValue_PerTeam(tbl, g, c) ==
    IF LeagueDen[c] = <<"games">>
    THEN Div(ColumnSum(tbl, g, c), Whole(Cardinality(DOMAIN tbl)))
    ELSE Div(ColumnSum(tbl, g, c),
             SumSeq([i \in 1..Len(LeagueDen[c]) |-> ColumnSum(tbl, g, LeagueDen[c][i])]))

\* one entry of avg_dict["league"] (lines 637-665)
LeagueValue(tbl, g, c) ==
    Div(ColumnSum(tbl, g, c),
        SumSeq([i \in 1..Len(LeagueDen[c]) |-> ColumnSum(tbl, g, LeagueDen[c][i])]))

\* lines 629-666
LeagueAverages ==
    /\ apc = "league"
    /\ df_leag_avg' = [c \in StatCols |-> LeagueValue(df_team_avg, games, c)]
    /\ apc' = "team_rates"
    /\ UNCHANGED <<df_team, df_players, games, df_team_avg, ratio, schedstr,
                   df_player_avg, df_player_proj, df_round>>
    /\ UNCHANGED <<wvars, pvars, rvars, xvars>>

\* The statements of the team rate conversion, in the order the code runs
\* them (lines 671-707): tgt = tgt / (sum of the den columns), the sum
\* passing through replace(0, 0.0001) where eps is TRUE.  Each statement
\* reads the table as the statements before it left it.
Stmt(tgt, den, eps) == [tgt |-> tgt, den |-> den, eps |-> eps]

TeamStatements ==
    << Stmt("pass_cmp", <<"pass_att">>, FALSE),                 \* 671
       Stmt("pass_yd",  <<"pass_att">>, FALSE),                 \* 672
       Stmt("pass_td",  <<"pass_att">>, FALSE),                 \* 673
       Stmt("pass_int", <<"pass_att">>, FALSE),                 \* 674
       Stmt("sacks",    <<"games">>,    FALSE),                 \* 675
       Stmt("rush_att", <<"games">>,    FALSE),                 \* 677
       Stmt("rush_yd",  <<"rush_att">>, TRUE),                  \* 678
       Stmt("rush_td",  <<"rush_att">>, TRUE),                  \* 679
       Stmt("targets",  <<"pass_att">>, TRUE),                  \* 681
       Stmt("rec",      <<"targets">>,  TRUE),                  \* 682
       Stmt("rec_yd",   <<"pass_att">>, TRUE),                  \* 683
       Stmt("rec_td",   <<"pass_att">>, TRUE),                  \* 684
       Stmt("off_fum",  <<"pass_att", "rush_att">>, TRUE),      \* 685
       Stmt("pass_att", <<"games">>,    FALSE),                 \* 687
       Stmt("rush_att", <<"games">>,    FALSE),                 \* 688
       Stmt("def_pass_cmp", <<"def_pass_att">>, TRUE),          \* 691
       Stmt("def_pass_yd",  <<"def_pass_att">>, TRUE),          \* 692
       Stmt("def_pass_td",  <<"def_pass_att">>, TRUE),          \* 693
       Stmt("def_int",      <<"def_pass_att">>, TRUE),          \* 694
       Stmt("def_sacks",    <<"games">>,        FALSE),         \* 695
       Stmt("def_rush_yd",  <<"def_rush_att">>, TRUE),          \* 697
       Stmt("def_rush_td",  <<"def_rush_att">>, TRUE),          \* 698
       Stmt("def_targets",  <<"def_pass_att">>, TRUE),          \* 700
       Stmt("def_rec",      <<"def_pass_att">>, TRUE),          \* 701
       Stmt("def_rec_yd",   <<"def_pass_att">>, TRUE),          \* 702
       Stmt("def_rec_td",   <<"def_pass_att">>, TRUE),          \* 703
       Stmt("def_fum",      <<"def_pass_att", "def_rush_att">>, TRUE),  \* 704
       Stmt("def_pass_att", <<"games">>,        FALSE),         \* 706
       Stmt("def_rush_att", <<"games">>,        FALSE) >>       \* 707

\* the value of a column of a row, g standing for the column games
Cell(row, g, c) == IF c \in {"games", "g"} THEN g ELSE row[c]

\* the denominator a statement divides by, read from the row as it is now
Denominator(row, g, st) ==
    LET d == SumSeq([i \in 1..Len(st.den) |-> Cell(row, g, st.den[i])])
    IN IF st.eps THEN ReplaceZero(d) ELSE d

\* one statement applied to one row
ApplyStmt(row, g, st) ==
    [row EXCEPT ![st.tgt] = Div(row[st.tgt], Denominator(row, g, st))]

RECURSIVE ApplyStmts(_, _, _)
\* the statements of the list applied to one row, first to last
ApplyStmts(row, g, stmts) ==
    IF stmts = <<>> THEN row
    ELSE ApplyStmt(ApplyStmts(row, g, SubSeq(stmts, 1, Len(stmts) - 1)), g,
                   stmts[Len(stmts)])

\* the cleanup without the sweep of the infinities
CleanRow_KeepInf(row) == [c \in DOMAIN row |-> FillNa(row[c])]

\* replace([inf, -inf], 0) then fillna(0) on every cell of a row
CleanRow(row) == [c \in DOMAIN row |-> FillNa(ReplaceInf(row[c]))]

\* lines 670-711
TeamRates ==
    /\ apc = "team_rates"
    /\ df_team_avg' = [t \in DOMAIN df_team_avg |->
                         CleanRow(ApplyStmts(df_team_avg[t], Whole(games[t]),
                                             TeamStatements))]
    /\ apc' = "ratios"
    /\ UNCHANGED <<df_team, df_players, games, df_leag_avg, ratio, schedstr,
                   df_player_avg, df_player_proj, df_round>>
    /\ UNCHANGED <<wvars, pvars, rvars, xvars>>

\* ratio_<col> of one team (lines 717-720, 723): the league value with 0
\* replaced by 0.0001, infinities swept, NaN left in place
TeamRatio(value, league) ==
    ReplaceInf(Div(value, IF league # Zero THEN league ELSE Epsilon))

\* lines 713-723
TeamRatios ==
    /\ apc = "ratios"
    /\ ratio' = [t \in DOMAIN df_team_avg |->
                   [c \in StatCols |-> TeamRatio(df_team_avg[t][c], df_leag_avg[c])]]
    /\ apc' = "schedstr"
    /\ UNCHANGED <<df_team, df_players, games, df_leag_avg, df_team_avg, schedstr,
                   df_player_avg, df_player_proj, df_round>>
    /\ UNCHANGED <<wvars, pvars, rvars, xvars>>

\* the mean taken over the distinct opponents instead of the games played
CalcMatchupStr_DistinctOpponents(opps, g, stat, df) ==
    LET stat_agg == SumSeq([i \in 1..Len(opps) |-> df[opps[i]][stat]])
    IN IF g = 0 THEN Zero ELSE Div(stat_agg, Whole(Cardinality(Range(opps))))

\* calc_matchup_str (lines 837-850) for opponents that all have a row
CalcMatchupStr(opps, g, stat, df) ==
    LET stat_agg == SumSeq([i \in 1..Len(opps) |-> df[opps[i]][stat]])
    IN IF g = 0 THEN Zero ELSE Div(stat_agg, Whole(g))

\* df.loc[team, stat] raises KeyError for a team without a row (line 844)
UnknownOpponent == \E t \in DOMAIN df_team : \E i \in 1..Len(df_team[t].opps) :
                       df_team[t].opps[i] \notin DOMAIN df_team

\* lines 725-731
ScheduleStrength ==
    /\ apc = "schedstr"
    /\ ~UnknownOpponent
    /\ schedstr' = [t \in DOMAIN df_team_avg |->
                      [c \in StatCols |->
                          ReplaceInf(FillNa(CalcMatchupStr(df_team[t].opps, games[t],
                                                           c, ratio)))]]
    /\ ratio' = [t \in DOMAIN ratio |-> [c \in StatCols |-> FillNa(ratio[t][c])]]
    /\ apc' = "player_rates"
    /\ UNCHANGED <<df_team, df_players, games, df_leag_avg, df_team_avg,
                   df_player_avg, df_player_proj, df_round>>
    /\ UNCHANGED <<wvars, pvars, rvars, xvars>>

ScheduleStrengthRaise ==
    /\ apc = "schedstr"
    /\ UnknownOpponent
    /\ apc' = "KeyError"
    /\ UNCHANGED <<df_team, df_players, games, df_leag_avg, df_team_avg, ratio,
                   schedstr, df_player_avg, df_player_proj, df_round>>
    /\ UNCHANGED <<wvars, pvars, rvars, xvars>>

\* The statements of the player rate conversion (lines 744-759)
PlayerStatements ==
    << Stmt("pass_cmp", <<"pass_att">>, TRUE),                  \* 744
       Stmt("pass_yd",  <<"pass_att">>, TRUE),                  \* 745
       Stmt("pass_td",  <<"pass_att">>, TRUE),                  \* 746
       Stmt("pass_int", <<"pass_att">>, TRUE),                  \* 747
       Stmt("rush_yd",  <<"rush_att">>, TRUE),                  \* 749
       Stmt("rush_td",  <<"rush_att">>, TRUE),                  \* 750
       Stmt("rec",      <<"tar">>,      TRUE),                  \* 752
       Stmt("rec_yd",   <<"tar">>,      TRUE),                  \* 753
       Stmt("rec_td",   <<"tar">>,      TRUE),                  \* 754
       Stmt("fum",      <<"tar", "rush_att">>, TRUE),           \* 755
       Stmt("tar",      <<"g">>,        TRUE),                  \* 757
       Stmt("pass_att", <<"g">>,        TRUE),                  \* 758
       Stmt("rush_att", <<"g">>,        TRUE) >>                \* 759

\* lines 736-763
PlayerRates ==
    /\ apc = "player_rates"
    /\ df_player_avg' = [n \in DOMAIN df_players |->
                           CleanRow(ApplyStmts(df_players[n].stats, df_players[n].g,
                                               PlayerStatements))]
    /\ apc' = "core"
    /\ UNCHANGED <<df_team, df_players, games, df_leag_avg, df_team_avg, ratio,
                   schedstr, df_player_proj, df_round>>
    /\ UNCHANGED <<wvars, pvars, rvars, xvars>>

\* the player rates the core and projection stages read (line 770)
RoundRow(row) == [c \in DOMAIN row |-> Round2(row[c])]

\* the core columns, in the order the code computes them (lines 771-783):
\* out = (sum of the base columns) [* (rate / schedstr_ratio_<def>)],
\* the attempt columns dividing the per-game attempts by the schedule strength
CoreAtt(out, att, def) == [out |-> out, att |-> att, def |-> def]
CoreStat(out, base, rate, def) == [out |-> out, base |-> base, rate |-> rate, def |-> def]

CoreAttempts ==
    << CoreAtt("core_pass_att", "pass_att", "def_pass_att"),    \* 771
       CoreAtt("core_rush_att", "rush_att", "def_rush_att"),    \* 772
       CoreAtt("core_tar",      "tar",      "def_pass_att") >>  \* 773

CoreStats ==
    << CoreStat("core_pass_yd", <<"core_pass_att">>, "pass_yd",  "def_pass_yd"),   \* 775
       CoreStat("core_pass_td", <<"core_pass_att">>, "pass_td",  "def_pass_td"),   \* 776
       CoreStat("core_int",     <<"core_pass_att">>, "pass_int", "def_int"),       \* 777
       CoreStat("core_rush_yd", <<"core_rush_att">>, "rush_yd",  "def_rush_yd"),   \* 778
       CoreStat("core_rush_td", <<"core_rush_att">>, "rush_td",  "def_rush_td"),   \* 779
       CoreStat("core_rec",     <<"core_tar">>,      "rec",      "def_rec"),       \* 780
       CoreStat("core_rec_yd",  <<"core_tar">>,      "rec_yd",   "def_rec_yd"),    \* 781
       CoreStat("core_rec_td",  <<"core_tar">>,      "rec_td",   "def_rec_td"),    \* 782
       CoreStat("core_fum",     <<"core_tar", "core_rush_att">>, "fum", "def_fum") >>  \* 783

\* the attempts taken as the excess over the schedule strength
CoreAttemptValue_Excess(att, s) == Add(att, Mul(Whole(-1), s))

\* row["pass_att"] / schedstr
CoreAttemptValue(att, s) == Div(att, s)

\* row["core_pass_att"] * (row["pass_yd"] / schedstr)
CoreStatValue(base, rate, s) == Mul(base, Div(rate, s))

RECURSIVE WithCoreAttempts(_, _, _)
WithCoreAttempts(row, ss, stmts) ==
    IF stmts = <<>> THEN row
    ELSE LET r == WithCoreAttempts(row, ss, SubSeq(stmts, 1, Len(stmts) - 1))
             st == stmts[Len(stmts)]
         IN (st.out :> CoreAttemptValue(r[st.att], ss[st.def])) @@ r

RECURSIVE WithCoreStats(_, _, _)
WithCoreStats(row, ss, stmts) ==
    IF stmts = <<>> THEN row
    ELSE LET r == WithCoreStats(row, ss, SubSeq(stmts, 1, Len(stmts) - 1))
             st == stmts[Len(stmts)]
             base == SumSeq([i \in 1..Len(st.base) |-> r[st.base[i]]])
         IN (st.out :> CoreStatValue(base, r[st.rate], ss[st.def])) @@ r

\* df_team_avg.loc[row["team"], ...] raises KeyError for a player whose team
\* has no row (line 771)
UnknownTeam == \E n \in DOMAIN df_players : df_players[n].team \notin DOMAIN df_team

\* lines 765-787
CoreStrength ==
    /\ apc = "core"
    /\ ~UnknownTeam
    /\ df_player_proj' =
         [n \in DOMAIN df_player_avg |->
            CleanRow(WithCoreStats(
                       WithCoreAttempts(RoundRow(df_player_avg[n]),
                                        schedstr[df_players[n].team], CoreAttempts),
                       schedstr[df_players[n].team], CoreStats))]
    /\ apc' = "proj"
    /\ UNCHANGED <<df_team, df_players, games, df_leag_avg, df_team_avg, ratio,
                   schedstr, df_player_avg, df_round>>
    /\ UNCHANGED <<wvars, pvars, rvars, xvars>>

CoreStrengthRaise ==
    /\ apc = "core"
    /\ UnknownTeam
    /\ apc' = "KeyError"
    /\ UNCHANGED <<df_team, df_players, games, df_leag_avg, df_team_avg, ratio,
                   schedstr, df_player_avg, df_player_proj, df_round>>
    /\ UNCHANGED <<wvars, pvars, rvars, xvars>>

\* the column of the team table a projection multiplies by: a ratio_<stat>
\* column or the rate column <stat> itself
RatioCol(stat) == [kind |-> "ratio", stat |-> stat]
RateCol(stat)  == [kind |-> "rate", stat |-> stat]

\* the lookup falling back to 0 instead of 1.0
SafeGetOpponentRatio_ZeroDefault(t, col) ==
    LET next_opponent == NextOp(t)
    IN IF next_opponent = ZeroFloat THEN Zero
       ELSE IF next_opponent \notin DOMAIN df_team THEN Zero
       ELSE IF col.kind = "ratio" THEN ratio[next_opponent][col.stat]
       ELSE df_team_avg[next_opponent][col.stat]

\* safe_get_opponent_ratio (lines 794-802) for a player of team t
SafeGetOpponentRatio(t, col) ==
    LET next_opponent == NextOp(t)
    IN IF next_opponent = ZeroFloat THEN One
       ELSE IF next_opponent \notin DOMAIN df_team THEN One
       ELSE IF col.kind = "ratio" THEN ratio[next_opponent][col.stat]
       ELSE df_team_avg[next_opponent][col.stat]

\* the projection columns, in the order the code computes them (lines 804-816)
ProjAtt(out, core, opp) == [out |-> out, core |-> core, opp |-> opp]
ProjStat(out, base, rate, def, opp) ==
    [out |-> out, base |-> base, rate |-> rate, def |-> def, opp |-> opp]

ProjAttempts ==
    << ProjAtt("proj_pass_att", "core_pass_att", RatioCol("def_pass_att")),   \* 804
       ProjAtt("proj_rush_att", "core_rush_att", RatioCol("def_rush_att")),   \* 805
       ProjAtt("proj_tar",      "core_tar",      RatioCol("def_pass_att")) >> \* 806

ProjStats ==
    << ProjStat("proj_pass_yd", <<"proj_pass_att">>, "pass_yd",  "def_pass_yd", RatioCol("def_pass_yd")),  \* 808
       ProjStat("proj_pass_td", <<"proj_pass_att">>, "pass_td",  "def_pass_td", RatioCol("def_pass_td")),  \* 809
       ProjStat("proj_int",     <<"proj_pass_att">>, "pass_int", "def_int",     RatioCol("def_int")),      \* 810
       ProjStat("proj_rush_yd", <<"proj_rush_att">>, "rush_yd",  "def_rush_yd", RatioCol("def_rush_yd")),  \* 811
       ProjStat("proj_rush_td", <<"proj_rush_att">>, "rush_td",  "def_rush_td", RatioCol("def_rush_td")),  \* 812
       ProjStat("proj_rec",     <<"proj_tar">>,      "rec",      "def_rec",     RatioCol("def_rec")),      \* 813
       ProjStat("proj_rec_yd",  <<"proj_tar">>,      "rec_yd",   "def_rec_yd",  RatioCol("def_rec_yd")),   \* 814
       ProjStat("proj_rec_td",  <<"proj_tar">>,      "rec_td",   "def_rec_td",  RatioCol("def_rec_td")),   \* 815
       ProjStat("proj_fum",     <<"proj_tar", "proj_rush_att">>, "fum", "def_fum", RateCol("def_fum")) >>  \* 816

\* row["core_pass_att"] * safe_get_opponent_ratio(...)
ProjAttemptValue(core, opp) == Mul(core, opp)

\* row["proj_pass_att"] * (row["pass_yd"] / schedstr) * safe_get_opponent_ratio(...)
ProjStatValue(base, rate, s, opp) == Mul(Mul(base, Div(rate, s)), opp)

RECURSIVE WithProjAttempts(_, _, _)
WithProjAttempts(row, t, stmts) ==
    IF stmts = <<>> THEN row
    ELSE LET r == WithProjAttempts(row, t, SubSeq(stmts, 1, Len(stmts) - 1))
             st == stmts[Len(stmts)]
         IN (st.out :> ProjAttemptValue(r[st.core], SafeGetOpponentRatio(t, st.opp))) @@ r

RECURSIVE WithProjStats(_, _, _)
WithProjStats(row, t, stmts) ==
    IF stmts = <<>> THEN row
    ELSE LET r == WithProjStats(row, t, SubSeq(stmts, 1, Len(stmts) - 1))
             st == stmts[Len(stmts)]
             base == SumSeq([i \in 1..Len(st.base) |-> r[st.base[i]]])
         IN (st.out :> ProjStatValue(base, r[st.rate], schedstr[t][st.def],
                                     SafeGetOpponentRatio(t, st.opp))) @@ r

\* lines 790-820
Projection ==
    /\ apc = "proj"
    /\ df_player_proj' =
         [n \in DOMAIN df_player_proj |->
            CleanRow(WithProjStats(
                       WithProjAttempts(df_player_proj[n], df_players[n].team,
                                        ProjAttempts),
                       df_players[n].team, ProjStats))]
    /\ apc' = "save"
    /\ UNCHANGED <<df_team, df_players, games, df_leag_avg, df_team_avg, ratio,
                   schedstr, df_player_avg, df_round>>
    /\ UNCHANGED <<wvars, pvars, rvars, xvars>>

\* lines 822-835
Save ==
    /\ apc = "save"
    /\ df_round' = [n \in DOMAIN df_player_proj |-> RoundRow(df_player_proj[n])]
    /\ apc' = "done"
    /\ UNCHANGED <<df_team, df_players, games, df_leag_avg, df_team_avg, ratio,
                   schedstr, df_player_avg, df_player_proj>>
    /\ UNCHANGED <<wvars, pvars, rvars, xvars>>

ANext == \/ Setup
         \/ LeagueAverages
         \/ TeamRates
         \/ TeamRatios
         \/ ScheduleStrength
         \/ ScheduleStrengthRaise
         \/ PlayerRates
         \/ CoreStrength
         \/ CoreStrengthRaise
         \/ Projection
         \/ Save

SpecAnalyze == AInit /\ [][ANext]_vars

-----------------------------------------------------------------------------
(* Properties of analyze *)

\* the summed counter of a team as analyze receives it
Raw(t, c) == IF c = "games" THEN Whole(games[t]) ELSE df_team[t].stats[c]

\* the sum of the raw counters of a list of columns
RawSum(t, cols) == SumSeq([i \in 1..Len(cols) |-> Raw(t, cols[i])])

\* the denominator columns of the last statement that converts column c
LastStmt(stmts, c) ==
    stmts[CHOOSE i \in 1..Len(stmts) :
             /\ stmts[i].tgt = c
             /\ \A j \in (i + 1)..Len(stmts) : stmts[j].tgt # c]

RatiosDone   == ratio # <<>>
SchedStrDone == schedstr # <<>>
CoreDone     == apc \in {"proj", "save", "done"}
ProjDone     == apc \in {"save", "done"}

\* C5: for every stat, the mean of the teams' ratio_<stat>, weighted by each
\* team's denominator volume for that stat (the raw sum of the columns the
\* team rate divides by), is 1.0: sum(volume * ratio) = sum(volume).
C5_LeagueAverageIdentity ==
    RatiosDone =>
        \A c \in StatCols :
            LET den    == LastStmt(TeamStatements, c).den
                volume == [t \in DOMAIN df_team |-> RawSum(t, den)]
                total  == SumOver(volume, DOMAIN df_team)
                numer  == SumOver([t \in DOMAIN df_team |-> Raw(t, c)], DOMAIN df_team)
            IN (total # Zero /\ numer # Zero) =>
                  SumOver([t \in DOMAIN df_team |-> Mul(volume[t], FillNa(ratio[t][c]))],
                          DOMAIN df_team) = total

\* the attempt counter each per-attempt rate is taken over
AttemptCategory ==
    [pass_cmp |-> <<"pass_att">>, pass_yd |-> <<"pass_att">>,
     pass_td  |-> <<"pass_att">>, pass_int |-> <<"pass_att">>,
     rush_yd  |-> <<"rush_att">>, rush_td  |-> <<"rush_att">>,
     rec      |-> <<"targets">>,  rec_yd   |-> <<"targets">>,
     rec_td   |-> <<"targets">>,  off_fum  |-> <<"pass_att", "rush_att">>,
     def_pass_cmp |-> <<"def_pass_att">>, def_pass_yd |-> <<"def_pass_att">>,
     def_pass_td  |-> <<"def_pass_att">>, def_int     |-> <<"def_pass_att">>,
     def_rush_yd  |-> <<"def_rush_att">>, def_rush_td |-> <<"def_rush_att">>,
     def_rec      |-> <<"def_targets">>,  def_rec_yd  |-> <<"def_targets">>,
     def_rec_td   |-> <<"def_targets">>,
     def_fum      |-> <<"def_pass_att", "def_rush_att">>]

\* C6: every per-attempt team rate is the team's summed numerator divided by
\* the team's summed raw attempt counter of the matching category.
C6_RateOverRawAttempts ==
    RatiosDone =>
        \A t \in DOMAIN df_team : \A c \in DOMAIN AttemptCategory :
            RawSum(t, AttemptCategory[c]) # Zero =>
                df_team_avg[t][c] = Div(Raw(t, c), RawSum(t, AttemptCategory[c]))

AttemptVolumes == {"pass_att", "rush_att", "targets",
                   "def_pass_att", "def_rush_att", "def_targets"}

\* C7: every attempt-volume stat ends up as the team's summed counter divided
\* once by the team's games count.
C7_AttemptsPerGame ==
    RatiosDone =>
        \A t \in DOMAIN df_team : \A c \in AttemptVolumes :
            games[t] # 0 => df_team_avg[t][c] = Div(Raw(t, c), Whole(games[t]))

\* the next opponent's ratio_<stat>, 1.0 when the lookup cannot be resolved
OpponentRatio(t, stat) == SafeGetOpponentRatio(t, RatioCol(stat))

\* C8: every projected stat, fumbles included, is multiplied by the next
\* opponent's ratio_def_<stat>: proj_attempts = core_attempts * ratio and
\* proj_<stat> = proj_attempts * (player_rate / schedstr) * ratio.
C8_ProjectionUsesRatios ==
    ProjDone =>
        \A n \in DOMAIN df_player_proj :
            LET t == df_players[n].team
                r == df_player_proj[n]
            IN /\ \A i \in 1..Len(ProjAttempts) :
                    LET st == ProjAttempts[i]
                    IN r[st.out] = FillNa(ReplaceInf(
                           Mul(r[st.core], OpponentRatio(t, st.opp.stat))))
               /\ \A i \in 1..Len(ProjStats) :
                    LET st == ProjStats[i]
                        base == SumSeq([k \in 1..Len(st.base) |-> r[st.base[k]]])
                    IN r[st.out] = FillNa(ReplaceInf(
                           Mul(Mul(base, Div(r[st.rate], schedstr[t][st.def])),
                               OpponentRatio(t, st.def))))

\* the exact rate of a player column: summed numerator / summed attempts,
\* attempts per game for the attempt columns
ExactPlayerRate(n, c) ==
    Div(df_players[n].stats[c],
        SumSeq([i \in 1..Len(LastStmt(PlayerStatements, c).den) |->
                   Cell(df_players[n].stats, df_players[n].g,
                        LastStmt(PlayerStatements, c).den[i])]))

\* C9: core_<attempts> = attempts per game / schedule strength of the team,
\* core_<stat> = core_<attempts> * (player_rate / schedule strength), the
\* player's rates being exact.
C9_CoreFromExactRates ==
    CoreDone =>
        \A n \in DOMAIN df_player_proj :
            LET t == df_players[n].team
                r == df_player_proj[n]
                exactAtt(st) == Div(ExactPlayerRate(n, st.att), schedstr[t][st.def])
                attOf(out) == CoreAttempts[CHOOSE i \in 1..Len(CoreAttempts) :
                                              CoreAttempts[i].out = out]
            IN /\ \A i \in 1..Len(CoreAttempts) :
                    LET st == CoreAttempts[i]
                    IN (schedstr[t][st.def] # Zero /\ df_players[n].g # Zero) =>
                          r[st.out] = exactAtt(st)
               /\ \A i \in 1..Len(CoreStats) :
                    LET st == CoreStats[i]
                        base == SumSeq([k \in 1..Len(st.base) |-> exactAtt(attOf(st.base[k]))])
                    IN (/\ schedstr[t][st.def] # Zero
                        /\ df_players[n].g # Zero
                        /\ IsFinite(base)
                        /\ IsFinite(ExactPlayerRate(n, st.rate))) =>
                          r[st.out] = Mul(base, Div(ExactPlayerRate(n, st.rate),
                                                    schedstr[t][st.def]))

\* how often team o occurs in a list of opponents
Times(opps, o) == Cardinality({i \in 1..Len(opps) : opps[i] = o})

\* C10: schedstr_<stat> of a team is the arithmetic mean of ratio_<stat> over
\* the teams of its opps, an opponent played twice counting twice, and 0 for
\* a team without games; the stage raises for no such table (only for one
\* that lists an opponent without a row).
C10_SchedStrIsMeanOverOpps ==
    /\ SchedStrDone =>
         \A t \in DOMAIN df_team : \A c \in StatCols :
             IF games[t] = 0 THEN schedstr[t][c] = Zero
             ELSE Mul(schedstr[t][c], Whole(Len(df_team[t].opps)))
                    = SumOver([o \in Range(df_team[t].opps) |->
                                  Mul(Whole(Times(df_team[t].opps, o)), ratio[o][c])],
                              Range(df_team[t].opps))
    /\ (apc = "KeyError" /\ ~SchedStrDone) => UnknownOpponent

\* a table with a team that met the same opponent twice and a team without
\* games, after the schedule strength stage
C10_Witness ==
    /\ SchedStrDone
    /\ \E t \in DOMAIN df_team :
          /\ games[t] = 2
          /\ df_team[t].opps[1] = df_team[t].opps[2]
          /\ \E c \in StatCols : schedstr[t][c] \notin {Zero, One}
    /\ \E u \in DOMAIN df_team : games[u] = 0 /\ \A c \in StatCols : schedstr[u][c] = Zero

\* the team of player n has no coming game
ByeWeek(n) == /\ df_players[n].team \in DOMAIN df_team
              /\ NextOp(df_players[n].team) = ZeroFloat

\* C11: for a player whose team has no next_op, every proj_<stat> equals the
\* corresponding core_<stat>, and the player has a row in the table written.
C11_ByeWeekNeutrality ==
    /\ ProjDone =>
         \A n \in DOMAIN df_player_proj :
            ByeWeek(n) =>
               /\ \A i \in 1..Len(ProjAttempts) :
                     df_player_proj[n][ProjAttempts[i].out]
                        = df_player_proj[n][ProjAttempts[i].core]
               /\ \A i \in 1..Len(ProjStats) :
                     df_player_proj[n][ProjStats[i].out]
                        = df_player_proj[n][CoreStats[i].out]
    /\ apc = "done" => DOMAIN df_round = DOMAIN df_players

\* every team has played, and all teams passed at one positive rate per game
SamePassRate ==
    /\ \A t \in DOMAIN df_team : games[t] > 0 /\ Raw(t, "pass_att") # Zero
    /\ \A t, u \in DOMAIN df_team :
          Mul(Raw(t, "pass_att"), Whole(games[u])) = Mul(Raw(u, "pass_att"), Whole(games[t]))

\* the next opponent of player n has a row and its ratio_def_pass_att is 1.0
FacesAverageDefence(n) ==
    /\ df_players[n].team \in DOMAIN df_team
    /\ NextOp(df_players[n].team) \in DOMAIN df_team
    /\ ratio[NextOp(df_players[n].team)]["def_pass_att"] = One

\* C12: when all teams have the same per-game passing attempt rate,
\* ratio_pass_att is 1.0 for every team; a player whose next opponent has
\* ratio_def_pass_att = 1.0 gets proj_pass_att equal to core_pass_att.
C12_EqualRatesGiveUnitRatio ==
    /\ (RatiosDone /\ SamePassRate) =>
          \A t \in DOMAIN df_team : ratio[t]["pass_att"] = One
    /\ ProjDone =>
          \A n \in DOMAIN df_player_proj :
             FacesAverageDefence(n) =>
                df_player_proj[n]["proj_pass_att"] = df_player_proj[n]["core_pass_att"]

\* teams with one and with two games passing at the same rate, and a passer
\* whose coming opponent is an average defence
C12_Witness ==
    /\ ProjDone
    /\ SamePassRate
    /\ \E t, u \in DOMAIN df_team : games[t] # games[u]
    /\ \E n \in DOMAIN df_player_proj :
          /\ FacesAverageDefence(n)
          /\ df_player_proj[n]["proj_pass_att"] # Zero

\* C13: whenever analyze completes, every value of the table it writes is
\* finite (no NaN, no infinity), whatever zeros the inputs hold.
C13_OutputIsFinite ==
    /\ ProjDone =>
         \A n \in DOMAIN df_player_proj : \A c \in DOMAIN df_player_proj[n] :
            IsFinite(df_player_proj[n][c])
    /\ apc = "done" =>
         \A n \in DOMAIN df_round : \A c \in DOMAIN df_round[n] :
            IsFinite(df_round[n][c])

\* a completed run with a team without games, a player of that team whose
\* targets are divided by a schedule strength of zero, and a player without
\* games
C13_Witness ==
    /\ apc = "done"
    /\ \E n \in DOMAIN df_round :
          /\ games[df_players[n].team] = 0
          /\ df_player_avg[n]["tar"] # Zero
          /\ schedstr[df_players[n].team]["def_pass_att"] = Zero
    /\ \E m \in DOMAIN df_round : df_players[m].g = Zero

\* the proj_ columns of the table
ProjCols == {ProjAttempts[i].out : i \in 1..Len(ProjAttempts)}
               \cup {ProjStats[i].out : i \in 1..Len(ProjStats)}

\* C14: with counters and weights that are not negative, every proj_ value
\* analyze writes is >= 0, also for players without attempts and teams
\* without games.
C14_ProjectionsNonNegative ==
    /\ ProjDone =>
         \A n \in DOMAIN df_player_proj : \A c \in ProjCols :
            ~Less(df_player_proj[n][c], Zero)
    /\ apc = "done" =>
         \A n \in DOMAIN df_round : \A c \in ProjCols : ~Less(df_round[n][c], Zero)

\* a written table with a positive projection, a player without games and a
\* team without games
C14_Witness ==
    /\ apc = "done"
    /\ \E n \in DOMAIN df_round : \E c \in ProjCols : Less(Zero, df_round[n][c])
    /\ \E m \in DOMAIN df_round :
          /\ df_players[m].g = Zero
          /\ \A c \in ProjCols : df_round[m][c] = Zero
    /\ \E t \in DOMAIN df_team : games[t] = 0

\* the next opponent of the team of player n cannot be looked up: there is
\* none, or it names a team without a row in the team table
Unresolved(n) ==
    /\ df_players[n].team \in DOMAIN df_team
    /\ \/ NextOp(df_players[n].team) = ZeroFloat
       \/ NextOp(df_players[n].team) \notin DOMAIN df_team

\* C20: in the projection stage a next-opponent lookup that cannot be
\* resolved gives the multiplier 1.0 for every stat, and the stage does not
\* abort the run (a KeyError of analyze is raised before it).
C20_UnresolvedOpponentIsNeutral ==
    /\ ProjDone =>
         \A n \in DOMAIN df_player_proj :
            Unresolved(n) =>
               LET t == df_players[n].team
                   r == df_player_proj[n]
               IN /\ \A i \in 1..Len(ProjAttempts) :
                        r[ProjAttempts[i].out] = Mul(r[ProjAttempts[i].core], One)
                  /\ \A i \in 1..Len(ProjStats) :
                        LET st == ProjStats[i]
                            base == SumSeq([k \in 1..Len(st.base) |-> r[st.base[k]]])
                        IN r[st.out] = FillNa(ReplaceInf(
                              Mul(Mul(base, Div(r[st.rate], schedstr[t][st.def])), One)))
    /\ apc = "KeyError" => df_player_proj = <<>>

\* a written projection of a player whose next opponent has no row in the
\* team table
C20_Witness ==
    /\ ProjDone
    /\ \E n \in DOMAIN df_player_proj :
          /\ df_players[n].team \in DOMAIN df_team
          /\ NextOp(df_players[n].team) = NoRowTeam
          /\ \E c \in ProjCols : df_player_proj[n][c] # Zero

\* C21: an opponent in a team's opps that has no row of its own in the team
\* table is not fatal: the schedule strength stage of analyze completes for
\* every team, it does not raise.
C21_UnknownOpponentNotFatal ==
    UnknownOpponent => ~(apc = "KeyError" /\ ~SchedStrDone)

\* C22: the table analyze writes has exactly one row for every player row of
\* its input, under the player's name, whatever the player's team: a team
\* without games, without a next opponent, or without a row in the team table;
\* no team value of a player stops analyze.
C22_OneRowPerPlayer ==
    /\ apc = "done" => DOMAIN df_round = DOMAIN df_players
    /\ (UnknownTeam /\ SchedStrDone) => apc # "KeyError"

-----------------------------------------------------------------------------
(* Part III: create_player_dataset_from_game_data *)

\* stat_columns of the game rows (lines 543-544); the rename of lines 568-578
\* maps GameCols[i] to PlayerStats[i]
GameCols == <<"pass_cmp", "pass_att", "pass_yds", "pass_tds", "pass_int", "sacks",
              "rush_att", "rush_yds", "rush_tds", "targets", "receptions",
              "rec_yds", "rec_tds", "fumbles">>

\* one player game row: the team is the team of record of that game
GameRow(player, team, year, week, time_weight, vals) ==
    [player |-> player, team |-> team, year |-> year, week |-> week,
     time_weight |-> Frac(time_weight, 10), line |-> Line(GameCols, vals)]

\* the rows the game data is drawn from: p1 played for A and for B, p2 and
\* p3 for one team each, p4 is on no roster
RowPool ==
    { GameRow("p1", "A", 2025, 3, 10, <<0, 0, 0, 0, 0, 0, 12, 50, 1, 3, 2, 15, 0, 1>>),
      GameRow("p1", "B", 2025, 2, 9,  <<0, 0, 0, 0, 0, 0, 10, 40, 0, 2, 2, 10, 1, 0>>),
      GameRow("p1", "B", 2024, 3, 8,  <<0, 0, 0, 0, 0, 0, 5, 20, 0, 0, 0, 0, 0, 0>>),
      GameRow("p2", "A", 2025, 3, 10, <<20, 30, 250, 2, 1, 2, 2, 10, 0, 0, 0, 0, 0, 0>>),
      GameRow("p3", "B", 2025, 2, 9,  <<0, 0, 0, 0, 0, 0, 0, 0, 0, 8, 5, 60, 1, 0>>),
      GameRow("p4", "A", 2025, 3, 10, <<0, 0, 0, 0, 0, 0, 0, 0, 0, 4, 3, 30, 0, 0>>) }

\* the sets load_active_roster can return
Rosters == { {}, {"p1"}, {"p1", "p2", "p3"}, {"p2", "p3", "p5"} }

\* the mappings create_player_team_mapping can return: p1 now plays for C;
\* a roster row without team_name leaves a player out of the mapping
Mappings ==
    { ("p1" :> "C" @@ "p2" :> "A" @@ "p3" :> "B" @@ "p5" :> "C"),
      ("p1" :> "C" @@ "p2" :> "A"),
      ("p2" :> "A" @@ "p3" :> "") }

PInit ==
    /\ ppc = "filter"
    /\ df_game_data \in SUBSET RowPool
    /\ active_roster \in Rosters
    /\ player_team_mapping \in Mappings
    /\ df_filtered = {}
    /\ player_stats = {}
    /\ games_played = <<>>
    /\ player_complete = {}
    /\ WIdle
    /\ AIdle
    /\ RIdle
    /\ XIdle

\* every row kept, on the roster or not
ActiveRows_All(rows, roster) == rows

\* df_game_data[df_game_data['player'].isin(active_roster)] (line 518)
ActiveRows(rows, roster) == {r \in rows : r.player \in roster}

\* lines 517-519
FilterActive ==
    /\ ppc = "filter"
    /\ df_filtered' = ActiveRows(df_game_data, active_roster)
    /\ ppc' = "check"
    /\ UNCHANGED <<df_game_data, active_roster, player_team_mapping, player_stats,
                   games_played, player_complete>>
    /\ UNCHANGED <<wvars, avars, rvars, xvars>>

\* lines 538-539
RaiseNoActivePlayers ==
    /\ ppc = "check"
    /\ df_filtered = {}
    /\ ppc' = "ValueError"
    /\ UNCHANGED <<df_game_data, active_roster, player_team_mapping, df_filtered,
                   player_stats, games_played, player_complete>>
    /\ UNCHANGED <<wvars, avars, rvars, xvars>>

\* the group of rows with the key of row r, grouped by player and team
GroupOf_PlayerAndTeam(rows, r) ==
    {q \in rows : q.player = r.player /\ q.team = r.team}

\* groupby('player'): the group of rows with the key of row r (line 550)
GroupOf(rows, r) == {q \in rows : q.player = r.player}

\* the time-weighted sum of column c over a group (lines 546-547, 550-565)
WeightedSum(group, c) ==
    SumOver([q \in group |-> Mul(q.line[c], q.time_weight)], group)

\* one record of player_stats, columns renamed (lines 550-578)
GroupStats(group, player) ==
    [player |-> player,
     stats  |-> [c \in Range(PlayerStats) |->
                    WeightedSum(group, GameCols[IndexOf(PlayerStats, c)])]]

\* df_filtered.groupby('player')['week'].nunique() (line 581)
WeeksPlayed(rows, player) == Cardinality({q.week : q \in {x \in rows : x.player = player}})

\* lines 541-585
Aggregate ==
    /\ ppc = "check"
    /\ df_filtered # {}
    /\ player_stats' = {GroupStats(GroupOf(df_filtered, r), r.player) : r \in df_filtered}
    /\ games_played' = [p \in {r.player : r \in df_filtered} |->
                           WeeksPlayed(df_filtered, p)]
    /\ ppc' = "team"
    /\ UNCHANGED <<df_game_data, active_roster, player_team_mapping, df_filtered,
                   player_complete>>
    /\ UNCHANGED <<wvars, avars, rvars, xvars>>

\* the value Series.map gives a name that is not a key of the mapping
NaNTeam == "NaN"

\* player_complete['player'].map(player_team_mapping) (line 588)
MapTeam(player, mapping) ==
    IF player \in DOMAIN mapping THEN mapping[player] ELSE NaNTeam

\* the records kept whatever their team
DropNaTeam_Keep(recs) == recs

\* dropna(subset=['team']) (line 591, again line 597)
DropNaTeam(recs) == {r \in recs : r.team # NaNTeam}

\* lines 598-599
ValidTeam(recs) == {r \in recs : r.team # ""}

\* lines 585-604
AttachTeam ==
    /\ ppc = "team"
    /\ player_complete' =
          ValidTeam(DropNaTeam(
             {[name  |-> r.player,
               team  |-> MapTeam(r.player, player_team_mapping),
               g     |-> games_played[r.player],
               stats |-> r.stats] : r \in player_stats}))
    /\ ppc' = "returned"
    /\ UNCHANGED <<df_game_data, active_roster, player_team_mapping, df_filtered,
                   player_stats, games_played>>
    /\ UNCHANGED <<wvars, avars, rvars, xvars>>

PNext == \/ FilterActive
         \/ RaiseNoActivePlayers
         \/ Aggregate
         \/ AttachTeam

SpecPlayers == PInit /\ [][PNext]_vars

-----------------------------------------------------------------------------
(* Properties of create_player_dataset_from_game_data *)

PReturned == ppc = "returned"

\* the rows of a player in the game data, whatever the team of record
RowsOf(player) == {r \in df_game_data : r.player = player}

\* C15: a player with game rows under several teams yields a single
\* aggregate; its counters are the time-weighted sums over all his rows and
\* its team is the team the roster mapping gives.
C15_RosterConsolidation ==
    PReturned =>
       /\ \A a, b \in player_complete : a.name = b.name => a = b
       /\ \A a \in player_complete :
             /\ a.team = player_team_mapping[a.name]
             /\ \A c \in Range(PlayerStats) :
                   a.stats[c] = WeightedSum(RowsOf(a.name),
                                            GameCols[IndexOf(PlayerStats, c)])

\* a returned player whose rows are under two teams, neither of them the
\* team of the roster
C15_Witness ==
    /\ PReturned
    /\ \E a \in player_complete :
          /\ \E q, r \in RowsOf(a.name) : q.team # r.team
          /\ \A r \in RowsOf(a.name) : r.team # a.team
          /\ a.stats["rush_att"] # Zero

\* players that have rows, are on the roster and are no key of the mapping
Unmapped == ({r.player : r \in df_game_data} \cap active_roster)
               \ DOMAIN player_team_mapping

\* C16: every player of the output is on the active roster and is a key of
\* the mapping; an active player with rows but without mapping is dropped,
\* and the function does not raise for him.
C16_OnRosterAndMapped ==
    /\ PReturned =>
          \A a \in player_complete :
             a.name \in active_roster /\ a.name \in DOMAIN player_team_mapping
    /\ ppc = "ValueError" => ActiveRows(df_game_data, active_roster) = {}

\* a returned dataset from which an active player without mapping is missing
C16_Witness ==
    /\ PReturned
    /\ Unmapped # {}
    /\ player_complete # {}
    /\ \A p \in Unmapped : \A a \in player_complete : a.name # p

\* no row of the game data belongs to a player of the roster
NoActiveRow == \A r \in df_game_data : r.player \notin active_roster

\* C17: if no game row belongs to a player of the active roster, the
\* function raises an error and returns no dataset.
C17_RaisesWithoutActiveRows ==
    /\ [](NoActiveRow => ppc \in {"filter", "check", "ValueError"})
    /\ [][(NoActiveRow /\ ppc = "check") => ppc' = "ValueError"]_vars

\* the error raised for game data and a roster that do not overlap
C17_Witness ==
    /\ ppc = "ValueError"
    /\ df_game_data # {}
    /\ active_roster # {}

\* the games (season, week) in which a player has an active row
GamesOf(player) == {<<q.year, q.week>> : q \in {x \in df_filtered : x.player = player}}

\* C28: the games-played count g of a player is the number of distinct games
\* (season, week) of the window in which the player has a row, also when the
\* window holds the same week number from both seasons.
C28_GamesPlayedCountsGames ==
    ppc \in {"team", "returned"} =>
        \A p \in DOMAIN games_played : games_played[p] = Cardinality(GamesOf(p))

\* the columns of the player table that analyze divides by g (lines 757-759)
AttemptCols == {"tar", "pass_att", "rush_att"}

\* C29: time weighting leaves the level of a constant performer alone: a
\* player whose raw counter is the same value in every game of the window
\* gets that value as attempts per game (the aggregated counter over g),
\* whatever the time weights of the games.
C29_ConstantPerformerKeepsLevel ==
    PReturned =>
       \A a \in player_complete : \A c \in AttemptCols :
          LET rows == {q \in df_filtered : q.player = a.name}
              raw  == {q.line[GameCols[IndexOf(PlayerStats, c)]] : q \in rows}
          IN \A x \in raw : raw = {x} => Div(a.stats[c], Whole(a.g)) = x

-----------------------------------------------------------------------------
(* Part IV: run and run_with_time_weighted_data.                           *)
(*                                                                         *)
(* The window is computed by the actions of Part I.  The player dataset    *)
(* and analyze are kept by their outcome: create_player_dataset_from_game_ *)
(* data raises ValueError exactly when no row is of an active player       *)
(* (Part III), analyze raises KeyError for an opponent or a team without   *)
(* a row (Part II).                                                        *)

FileStates == {"present", "missing"}

TeamCsv       == "nfl25_team.csv"
PlayersCsv    == "nfl25_players.csv"
ProjectionCsv == "nfl25_proj_week.csv"

\* the inputs of a run of run_with_time_weighted_data
RunProjectionWeeks == {1, 2, 3}
RunTargets24 == {{}, Weeks24}
RunFiles25 == {{}, {1}, {1, 2}, {3}}
RunFiles24 == {{}, Weeks24}

RInit ==
    /\ rpc = "start"
    /\ written = {}
    /\ analyze_raises \in BOOLEAN
    /\ weeks_to_include_2025 = <<>>
    /\ weeks_to_include_2024 = <<>>
    /\ df_2025_filtered = {}
    /\ df_2024_filtered = {}
    /\ weight_map = <<>>
    /\ df_combined = {}
    /\ wpc = "idle"
    /\ AIdle
    /\ PIdle
    /\ XIdle
    /\ \/ /\ entry = "run"
          /\ saved_datasets \in FileStates
          /\ roster_file = "present"
          /\ week_2025_file = "present"
          /\ weeks_2024_file = "present"
          /\ schedule_file = "None"
          /\ roster_matches = TRUE
          /\ projection_week = 1
          /\ target_weeks_2024 = {}
          /\ df_2025 = {}
          /\ df_2024 = {}
       \/ /\ entry = "run_with_time_weighted_data"
          /\ saved_datasets = "missing"
          /\ roster_file \in FileStates
          /\ week_2025_file \in FileStates
          /\ weeks_2024_file \in FileStates
          /\ schedule_file \in FileStates \cup {"None"}
          /\ roster_matches \in BOOLEAN
          /\ projection_week \in RunProjectionWeeks
          /\ target_weeks_2024 \in RunTargets24
          /\ df_2025 \in (IF week_2025_file = "present" THEN RunFiles25 ELSE {{}})
          /\ df_2024 \in (IF weeks_2024_file = "present" THEN RunFiles24 ELSE {{}})

\* a step of the run that leaves the inputs and the files written alone
RunStep(from, to) ==
    /\ rpc = from
    /\ rpc' = to
    /\ UNCHANGED <<entry, roster_file, week_2025_file, weeks_2024_file, schedule_file,
                   saved_datasets, roster_matches, analyze_raises, written>>
    /\ UNCHANGED <<avars, pvars, xvars>>

\* run, lines 865-868
RunLoadSaved ==
    /\ entry = "run"
    /\ saved_datasets = "present"
    /\ RunStep("start", "analyze")
    /\ UNCHANGED wvars

\* run, lines 869-871: the message is printed and run returns
RunLoadSavedMissing ==
    /\ entry = "run"
    /\ saved_datasets = "missing"
    /\ RunStep("start", "returned_early")
    /\ UNCHANGED wvars

\* lines 905-906, with the checks of lines 23-24 and 69-70
LoadRoster ==
    /\ entry = "run_with_time_weighted_data"
    /\ roster_file = "present"
    /\ RunStep("start", "window")
    /\ UNCHANGED wvars

LoadRosterRaise ==
    /\ entry = "run_with_time_weighted_data"
    /\ roster_file = "missing"
    /\ RunStep("start", "FileNotFoundError")
    /\ UNCHANGED wvars

\* line 909 and the pd.read_csv of lines 325 and 328
CallWindow ==
    /\ week_2025_file = "present"
    /\ weeks_2024_file = "present"
    /\ RunStep("window", "in_window")
    /\ wpc' = "select"
    /\ UNCHANGED <<projection_week, target_weeks_2024, df_2025, df_2024,
                   weeks_to_include_2025, weeks_to_include_2024, df_2025_filtered,
                   df_2024_filtered, weight_map, df_combined>>

ReadGameDataRaise ==
    /\ week_2025_file = "missing" \/ weeks_2024_file = "missing"
    /\ RunStep("window", "FileNotFoundError")
    /\ UNCHANGED wvars

\* create_time_weighted_dataset_dynamic returns df_combined (line 409)
WindowReturns ==
    /\ wpc = "returned"
    /\ RunStep("in_window", "schedule")
    /\ UNCHANGED wvars

\* the IndexError of line 343 leaves run_with_time_weighted_data
WindowRaises ==
    /\ wpc = "IndexError"
    /\ RunStep("in_window", "IndexError")
    /\ UNCHANGED wvars

\* the schedule stage reading no file when the given file is missing
ScheduleOutcome_MissingSkipped(file) ==
    IF file = "present" THEN "loaded" ELSE "skipped"

\* lines 913-918: no argument skips the stage, pd.read_csv raises for a
\* file that is not there
ScheduleOutcome(file) ==
    IF file = "None" THEN "skipped"
    ELSE IF file = "missing" THEN "raise"
    ELSE "loaded"

LoadSchedule ==
    /\ ScheduleOutcome(schedule_file) # "raise"
    /\ RunStep("schedule", "team_dataset")
    /\ UNCHANGED wvars

LoadScheduleRaise ==
    /\ ScheduleOutcome(schedule_file) = "raise"
    /\ RunStep("schedule", "FileNotFoundError")
    /\ UNCHANGED wvars

\* every frame taken to carry the time_weight column
CombinedColumns_Weighted(week, f25, f24) == "weighted"

\* the columns of the frame create_time_weighted_dataset_dynamic returns:
\* "weighted" with time_weight (lines 394, 397, 401), "none" for the
\* pd.DataFrame() of line 336 copied at line 403, "raw" for a filtered 2025
\* frame without rows, which line 393 leaves without time_weight
CombinedColumns(week, f25, f24) ==
    IF f24 # {} THEN "weighted"
    ELSE IF week = 1 THEN "none"
    ELSE IF f25 # {} THEN "weighted"
    ELSE "raw"

SeasonColumns == CombinedColumns(projection_week, df_2025_filtered, df_2024_filtered)

\* line 922
CreateTeamDataset ==
    /\ SeasonColumns = "weighted"
    /\ RunStep("team_dataset", "player_dataset")
    /\ UNCHANGED wvars

\* line 922: KeyError of df_game_data[['year', ...]] (line 115) on a frame
\* without columns, of df_weighted['time_weight'] (line 151) on a frame
\* without that column
CreateTeamDatasetRaise ==
    /\ SeasonColumns # "weighted"
    /\ RunStep("team_dataset", "KeyError")
    /\ UNCHANGED wvars

\* line 925
CreatePlayerDataset ==
    /\ roster_matches
    /\ RunStep("player_dataset", "save_datasets")
    /\ UNCHANGED wvars

\* line 925: the ValueError of line 539
CreatePlayerDatasetRaise ==
    /\ ~roster_matches
    /\ RunStep("player_dataset", "ValueError")
    /\ UNCHANGED wvars

\* lines 928-929
SaveDatasets ==
    /\ rpc = "save_datasets"
    /\ written' = written \cup {TeamCsv, PlayersCsv}
    /\ rpc' = "analyze"
    /\ UNCHANGED <<entry, roster_file, week_2025_file, weeks_2024_file, schedule_file,
                   saved_datasets, roster_matches, analyze_raises>>
    /\ UNCHANGED <<wvars, avars, pvars, xvars>>

\* lines 876 and 936: analyze runs to its to_csv (line 834)
Analyze ==
    /\ rpc = "analyze"
    /\ ~analyze_raises
    /\ written' = written \cup {ProjectionCsv}
    /\ rpc' = "done"
    /\ UNCHANGED <<entry, roster_file, week_2025_file, weeks_2024_file, schedule_file,
                   saved_datasets, roster_matches, analyze_raises>>
    /\ UNCHANGED <<wvars, avars, pvars, xvars>>

\* lines 876 and 936: analyze raises (lines 726, 771)
AnalyzeRaise ==
    /\ analyze_raises
    /\ RunStep("analyze", "KeyError")
    /\ UNCHANGED wvars

RNext == \/ RunLoadSaved
         \/ RunLoadSavedMissing
         \/ LoadRoster
         \/ LoadRosterRaise
         \/ CallWindow
         \/ ReadGameDataRaise
         \/ SelectWeek1
         \/ SelectWeek2
         \/ SelectWeek2Raise
         \/ SelectWeek3Plus
         \/ CalcWeights
         \/ CombineDatasets
         \/ WindowReturns
         \/ WindowRaises
         \/ LoadSchedule
         \/ LoadScheduleRaise
         \/ CreateTeamDataset
         \/ CreateTeamDatasetRaise
         \/ CreatePlayerDataset
         \/ CreatePlayerDatasetRaise
         \/ SaveDatasets
         \/ Analyze
         \/ AnalyzeRaise

SpecRun == RInit /\ [][RNext]_vars

-----------------------------------------------------------------------------
(* Properties of a run *)

RunErrors == {"FileNotFoundError", "IndexError", "KeyError", "ValueError"}

\* the window was computed and holds no row
EmptyWindow == wpc = "returned" /\ df_combined = {}

\* C18: when the selected window holds no game row, the run is aborted with
\* an error: it goes no further than the team dataset, which raises, and it
\* writes no file.
C18_EmptyWindowAborts ==
    /\ [](EmptyWindow =>
            /\ rpc \in {"in_window", "schedule", "team_dataset"} \cup RunErrors
            /\ written = {})
    /\ [][(EmptyWindow /\ rpc = "team_dataset") => rpc' = "KeyError"]_vars

\* the KeyError of a run whose window, for a projection week after week 2,
\* found no row in either file
C18_Witness ==
    /\ EmptyWindow
    /\ rpc = "KeyError"
    /\ projection_week > 2
    /\ schedule_file = "present"

MissingInput ==
    \/ roster_file = "missing"
    \/ week_2025_file = "missing"
    \/ weeks_2024_file = "missing"
    \/ schedule_file = "missing"

\* C19: with a required input file missing, or no row left by the roster
\* filter, the run is stopped by an error at the stage that needs the file or
\* the rows, and no projection table is written; the projection table is
\* written only by the last step of a run, after every stage has succeeded.
C19_AbortsWithoutProjection ==
    /\ [](ProjectionCsv \in written => rpc = "done")
    /\ []((entry = "run_with_time_weighted_data" /\ (MissingInput \/ ~roster_matches)) =>
            /\ ProjectionCsv \notin written
            /\ rpc \in {"start", "window", "in_window", "schedule", "team_dataset",
                        "player_dataset"} \cup RunErrors)
    /\ []((entry = "run_with_time_weighted_data" /\ rpc = "done") =>
            {TeamCsv, PlayersCsv} \subseteq written)
    /\ [][/\ (rpc = "start" /\ entry = "run_with_time_weighted_data"
                /\ roster_file = "missing") => rpc' = "FileNotFoundError"
          /\ (rpc = "window" /\ (week_2025_file = "missing" \/ weeks_2024_file = "missing"))
                => rpc' = "FileNotFoundError"
          /\ (rpc = "schedule" /\ schedule_file = "missing") => rpc' = "FileNotFoundError"
          /\ (rpc = "player_dataset" /\ ~roster_matches) => rpc' = "ValueError"
          /\ (rpc = "start" /\ entry = "run" /\ saved_datasets = "missing")
                => (rpc' = "returned_early" /\ written' = {})]_vars

\* a run stopped by a missing schedule file after the window was computed
C19_Witness ==
    /\ rpc = "FileNotFoundError"
    /\ schedule_file = "missing"
    /\ wpc = "returned"
    /\ df_combined # {}
    /\ written = {}

-----------------------------------------------------------------------------
(* Part V: the team dataset.                                               *)
(*                                                                         *)
(* The rows are those kept by the window of Part I, each with the          *)
(* time_weight of its (season, week).  The team names are normalized       *)
(* (lines 361-373), then create_team_dataset_from_game_data builds the     *)
(* schedule of each team, the records per (team, opponent, week) and the   *)
(* team table.  The schedule file is given, as __main__ gives it.          *)

\* team_name_mapping (lines 362-369)
TeamNameMapping ==
    ("Atlanta Falcons" :> "ATL" @@ "Baltimore Ravens" :> "BAL"
     @@ "Carolina Panthers" :> "CAR" @@ "Chicago Bears" :> "CHI"
     @@ "Cleveland Browns" :> "CLE" @@ "Dallas Cowboys" :> "DAL"
     @@ "Detroit Lions" :> "DET" @@ "Houston Texans" :> "HOU"
     @@ "Kansas City Chiefs" :> "KAN" @@ "Miami Dolphins" :> "MIA"
     @@ "New England Patriots" :> "NWE" @@ "New Orleans Saints" :> "NOR"
     @@ "New York Giants" :> "NYG" @@ "New York Jets" :> "NYJ"
     @@ "Seattle Seahawks" :> "SEA" @@ "Tennessee Titans" :> "TEN")

\* the full names of the teams of the league
LeagueFullNames ==
    {"Arizona Cardinals", "Atlanta Falcons", "Baltimore Ravens", "Buffalo Bills",
     "Carolina Panthers", "Chicago Bears", "Cincinnati Bengals", "Cleveland Browns",
     "Dallas Cowboys", "Denver Broncos", "Detroit Lions", "Green Bay Packers",
     "Houston Texans", "Indianapolis Colts", "Jacksonville Jaguars",
     "Kansas City Chiefs", "Las Vegas Raiders", "Los Angeles Chargers",
     "Los Angeles Rams", "Miami Dolphins", "Minnesota Vikings",
     "New England Patriots", "New Orleans Saints", "New York Giants",
     "New York Jets", "Philadelphia Eagles", "Pittsburgh Steelers",
     "San Francisco 49ers", "Seattle Seahawks", "Tampa Bay Buccaneers",
     "Tennessee Titans", "Washington Commanders"}

\* one player game row of the season data
SeasonRow(player, team, opponent, home, away, year, week, time_weight, vals) ==
    [player |-> player, team |-> team, opponent |-> opponent,
     home_team |-> home, away_team |-> away, year |-> year, week |-> week,
     time_weight |-> Frac(time_weight, 10), line |-> Line(GameCols, vals)]

\* the rows the season data is drawn from.  The 2025 file names the opponent
\* in full, the 2024 file by abbreviation.  Atlanta meets Arizona in week 12
\* of 2025 and Baltimore in week 11 of both seasons.
SeasonPool ==
    { SeasonRow("a1", "ATL", "Arizona Cardinals", "ATL", "ARI", 2025, 12, 10,
                <<20, 30, 250, 2, 1, 2, 2, 10, 0, 0, 0, 0, 0, 0>>),
      SeasonRow("a2", "ATL", "Arizona Cardinals", "ATL", "ARI", 2025, 12, 10,
                <<0, 0, 0, 0, 0, 0, 12, 50, 1, 3, 2, 15, 0, 1>>),
      SeasonRow("z1", "ARI", "Atlanta Falcons", "ATL", "ARI", 2025, 12, 10,
                <<15, 25, 180, 1, 0, 3, 4, 20, 0, 0, 0, 0, 0, 0>>),
      SeasonRow("a1", "ATL", "Baltimore Ravens", "BAL", "ATL", 2025, 11, 9,
                <<18, 28, 200, 1, 2, 1, 1, 5, 0, 0, 0, 0, 0, 1>>),
      SeasonRow("b1", "BAL", "Atlanta Falcons", "BAL", "ATL", 2025, 11, 9,
                <<0, 0, 0, 0, 0, 0, 15, 80, 1, 2, 1, 10, 0, 0>>),
      SeasonRow("a1", "ATL", "BAL", "ATL", "BAL", 2024, 11, 7,
                <<22, 35, 300, 3, 0, 2, 3, 15, 1, 0, 0, 0, 0, 0>>),
      SeasonRow("b1", "BAL", "ATL", "ATL", "BAL", 2024, 11, 7,
                <<0, 0, 0, 0, 0, 0, 10, 40, 0, 4, 3, 30, 1, 1>>) }

\* one row of the schedule file, idx its row label
Game(idx, round, home, away) == [idx |-> idx, round |-> round, home |-> home, away |-> away]

\* the schedule files
Schedules ==
    { {},
      {Game(0, 12, "ATL", "ARI"), Game(1, 13, "BAL", "ATL"), Game(2, 14, "ARI", "BAL")},
      {Game(0, 14, "ATL", "BAL"), Game(1, 13, "ARI", "ATL"), Game(2, 12, "ATL", "ARI")} }

\* the values of current_week
CurrentWeeks == {11, 12, 13, 14}

TInit ==
    /\ tpc = "normalize"
    /\ df_season_data \in (SUBSET SeasonPool) \ {{}}
    /\ df_schedule \in Schedules
    /\ current_week \in CurrentWeeks
    /\ team_schedule = <<>>
    /\ team_stats = {}
    /\ team_complete = <<>>
    /\ WIdle
    /\ AIdle
    /\ PIdle
    /\ RIdle
    /\ OIdle
    /\ DIdle

\* Series.map(team_name_mapping).fillna(original) (line 373)
NormalizeName(name) ==
    IF name \in DOMAIN TeamNameMapping THEN TeamNameMapping[name] ELSE name

\* lines 371-373: the opponent column of the 2025 rows
NormalizeRow(r) ==
    IF r.year = 2025 THEN [r EXCEPT !.opponent = NormalizeName(@)] ELSE r

NormalizeTeamNames ==
    /\ tpc = "normalize"
    /\ df_season_data' = {NormalizeRow(r) : r \in df_season_data}
    /\ tpc' = "schedule"
    /\ UNCHANGED <<df_schedule, current_week, team_schedule, team_stats, team_complete>>
    /\ UNCHANGED <<wvars, avars, pvars, rvars, ovars, dvars>>

\* the rows of drop_duplicates (line 115) for one team
TeamGames(rows, t) ==
    {[year |-> r.year, week |-> r.week, home_team |-> r.home_team,
      away_team |-> r.away_team, opponent |-> r.opponent] : r \in {x \in rows : x.team = t}}

\* the place of a game in the data: the 2025 rows come first (line 401), the
\* rows of a file are taken to be in week order
DataRank(g) == (2025 - g.year) * 100 + g.week

RECURSIVE OppsList(_)
\* list(x) of the opponent column of a group (line 119)
OppsList(gs) ==
    IF gs = {} THEN <<>>
    ELSE LET g == CHOOSE x \in gs : \A y \in gs : DataRank(x) <= DataRank(y)
         IN <<g.opponent>> \o OppsList(gs \ {g})

\* lines 115-121: opps and games of every team that has rows
BuildSchedule ==
    /\ tpc = "schedule"
    /\ team_schedule' = [t \in {r.team : r \in df_season_data} |->
                            [opps  |-> OppsList(TeamGames(df_season_data, t)),
                             games |-> Cardinality(TeamGames(df_season_data, t))]]
    /\ tpc' = "statistics"
    /\ UNCHANGED <<df_season_data, df_schedule, current_week, team_stats, team_complete>>
    /\ UNCHANGED <<wvars, avars, pvars, rvars, ovars, dvars>>

\* a side of a record that the outer merge left empty: NaN in every column
NaNSide(cols) == [c \in Range(cols) |-> NaN]

\* the keys (team, opponent, week) of the offensive groups (line 155)
OffKeys(rows) == {<<r.team, r.opponent, r.week>> : r \in rows}

\* the keys of the groups by (opponent, team, week) after the columns are
\* renamed to team, opponent, week (lines 175, 211)
DefKeys(rows) == {<<r.opponent, r.team, r.week>> : r \in rows}

\* a merge that keeps only the records with both sides
MergeKeys_Inner(off, def) == off \cap def

\* how='outer' (line 216)
MergeKeys(off, def) == off \cup def

\* one record of team_complete of build_team_statistics
TeamRecord(rows, k) ==
    LET own   == {r \in rows : r.team = k[1] /\ r.opponent = k[2] /\ r.week = k[3]}
        their == {r \in rows : r.opponent = k[1] /\ r.team = k[2] /\ r.week = k[3]}
    IN [team |-> k[1], opponent |-> k[2], week |-> k[3],
        off |-> IF k \in OffKeys(rows)
                  THEN [c \in Range(GameCols) |-> WeightedSum(own, c)]
                  ELSE NaNSide(GameCols),
        def |-> IF k \in DefKeys(rows)
                  THEN [c \in Range(DefStats) |->
                           WeightedSum(their, GameCols[IndexOf(DefStats, c)])]
                  ELSE NaNSide(DefStats)]

\* lines 146-218
BuildStatistics ==
    /\ tpc = "statistics"
    /\ team_stats' = {TeamRecord(df_season_data, k) :
                         k \in MergeKeys(OffKeys(df_season_data), DefKeys(df_season_data))}
    /\ tpc' = "aggregate"
    /\ UNCHANGED <<df_season_data, df_schedule, current_week, team_schedule, team_complete>>
    /\ UNCHANGED <<wvars, avars, pvars, rvars, ovars, dvars>>

\* the games of the team after current_week, those of that week included
FutureGames_Inclusive(team, week, sched) ==
    {g \in sched : g.round >= week /\ team \in {g.home, g.away}}

\* lines 233-239
FutureGames(team, week, sched) ==
    {g \in sched : g.round > week /\ team \in {g.home, g.away}}

\* determine_next_opponent (lines 220-251); idxmin gives the first row of the
\* lowest round
DetermineNextOpponent(team, week, sched) ==
    LET team_games == FutureGames(team, week, sched)
        next_game == CHOOSE g \in team_games :
                        \A h \in team_games :
                            g.round < h.round \/ (g.round = h.round /\ g.idx <= h.idx)
    IN IF team_games = {} THEN None
       ELSE IF next_game.away = team THEN next_game.home ELSE next_game.away

\* sum of one column over the records of a team; 'sum' skips NaN (lines
\* 437-466)
RecordSum(recs, side, c) ==
    SumOver([rec \in recs |-> IF rec[side][c] = NaN THEN Zero ELSE rec[side][c]], recs)

\* the 28 counters of a team, renamed (lines 437-478)
AggregatedStats(recs) ==
    [c \in StatCols |->
        IF c \in Range(OffStats) THEN RecordSum(recs, "off", GameCols[IndexOf(OffStats, c)])
        ELSE RecordSum(recs, "def", c)]

\* lines 437-496.  The left merge of line 481 leaves opps and games NaN for a
\* team without rows of its own (in_schedule is FALSE); analyze makes [] and
\* 0 of them (lines 612-622)
AggregateTeams ==
    /\ tpc = "aggregate"
    /\ team_complete' =
         [t \in {rec.team : rec \in team_stats} |->
            [stats   |-> AggregatedStats({rec \in team_stats : rec.team = t}),
             in_schedule |-> t \in DOMAIN team_schedule,
             opps    |-> IF t \in DOMAIN team_schedule THEN team_schedule[t].opps
                         ELSE <<>>,
             games   |-> IF t \in DOMAIN team_schedule THEN team_schedule[t].games
                         ELSE 0,
             next_op |-> DetermineNextOpponent(t, current_week, df_schedule)]]
    /\ tpc' = "returned"
    /\ UNCHANGED <<df_season_data, df_schedule, current_week, team_schedule, team_stats>>
    /\ UNCHANGED <<wvars, avars, pvars, rvars, ovars, dvars>>

TNext == \/ NormalizeTeamNames
         \/ BuildSchedule
         \/ BuildStatistics
         \/ AggregateTeams

SpecTeams == TInit /\ [][TNext]_vars

-----------------------------------------------------------------------------
(* Properties of the team dataset *)

TReturned == tpc = "returned"

\* the rows of the opponent of a record against the team of the record, in
\* the week of the record
TheirRows(rec) ==
    {r \in df_season_data :
        r.team = rec.opponent /\ r.opponent = rec.team /\ r.week = rec.week}

\* C23: in every record (team, opponent, week) of build_team_statistics each
\* def_ counter is the time-weighted sum of the mirrored offensive counter
\* over the opponent's rows against the team in that week; a record with one
\* side only is kept, and in the team table the missing side counts as zero.
C23_DefensiveMirror ==
    /\ tpc \in {"aggregate", "returned"} =>
          /\ \A rec \in team_stats : \A i \in 1..Len(DefStats) :
                rec.def[DefStats[i]] =
                    IF TheirRows(rec) = {} THEN NaN
                    ELSE WeightedSum(TheirRows(rec), GameCols[i])
          /\ \A r \in df_season_data :
                /\ \E rec \in team_stats :
                      rec.team = r.team /\ rec.opponent = r.opponent /\ rec.week = r.week
                /\ \E rec \in team_stats :
                      rec.team = r.opponent /\ rec.opponent = r.team /\ rec.week = r.week
    /\ TReturned =>
          \A t \in DOMAIN team_complete : \A i \in 1..Len(DefStats) :
             /\ team_complete[t].stats[DefStats[i]] =
                   WeightedSum({r \in df_season_data : r.opponent = t}, GameCols[i])
             /\ team_complete[t].stats[OffStats[i]] =
                   WeightedSum({r \in df_season_data : r.team = t}, GameCols[i])

\* a team table built from a game with the rows of both sides and a game
\* with the rows of one side only
C23_Witness ==
    /\ TReturned
    /\ \E rec \in team_stats :
          /\ rec.off["pass_att"] \notin {NaN, Zero}
          /\ rec.def["def_rush_att"] \notin {NaN, Zero}
    /\ \E rec \in team_stats :
          /\ rec.off["pass_att"] = NaN
          /\ rec.def["def_pass_att"] \notin {NaN, Zero}
          /\ team_complete[rec.team].stats["pass_att"] = Zero

\* the games of the window in which a team took part, on either side
GamesPlayedBy(t) ==
    {<<r.year, r.week>> : r \in {x \in df_season_data : x.team = t \/ x.opponent = t}}

\* C24: for every team row that analyze uses, games is the length of opps and
\* opps has one entry for every distinct game the team played in the window.
C24_GamesIsLenOpps ==
    TReturned =>
       \A t \in DOMAIN team_complete :
          /\ team_complete[t].games = Len(team_complete[t].opps)
          /\ Len(team_complete[t].opps) = Cardinality(GamesPlayedBy(t))

\* the schedule rows after current_week in which a team is home or away
LaterGames(t) ==
    {g \in df_schedule : g.round > current_week /\ (g.home = t \/ g.away = t)}

\* C25: determine_next_opponent gives the other team of the schedule row with
\* the smallest round number strictly greater than the current week in which
\* the team is home or away, and None exactly when there is no such row.
C25_NextOpponent ==
    TReturned =>
       \A t \in DOMAIN team_complete :
          /\ team_complete[t].next_op = None <=> LaterGames(t) = {}
          /\ LaterGames(t) # {} =>
                \E g \in LaterGames(t) :
                   /\ \A h \in LaterGames(t) : g.round <= h.round
                   /\ team_complete[t].next_op = IF g.home = t THEN g.away ELSE g.home

\* a team with a game in the current week and two later ones gets the
\* opponent of the nearer later game; another team has no later game
C25_Witness ==
    /\ TReturned
    /\ \E t \in DOMAIN team_complete :
          /\ \E g \in df_schedule : g.round = current_week /\ t \in {g.home, g.away}
          /\ Cardinality(LaterGames(t)) = 2
          /\ \E g \in LaterGames(t) :
                /\ team_complete[t].next_op \in {g.home, g.away}
                /\ \A h \in LaterGames(t) : g.round <= h.round
                /\ \E h \in LaterGames(t) :
                      team_complete[t].next_op \notin {h.home, h.away}

\* C26: in the dataset the window function returns, no team or opponent field
\* holds the full name of a team of the league: every full name has been
\* replaced by the abbreviation.
C26_CanonicalTeamNames ==
    tpc # "normalize" =>
       \A r \in df_season_data :
          r.team \notin LeagueFullNames /\ r.opponent \notin LeagueFullNames

-----------------------------------------------------------------------------
(* Part VI: OddsScraper._enforce_rate_limit and make_request (src/odds.py) *)

\* self.monthly_limit
MonthlyLimit == 500

\* calls of _enforce_rate_limit followed in one month
MaxCalls == 510

\* the responses of the API that make_request tells apart (lines 101-110)
StatusCodes == {200, 429, 500}

OInit ==
    /\ opc = "idle"
    /\ request_count = 0
    /\ http_sent = 0
    /\ WIdle
    /\ AIdle
    /\ PIdle
    /\ RIdle
    /\ TIdle
    /\ DIdle

\* the if / elif of lines 77-81: request_count >= monthly_limit * 0.9 is
\* tested first, and the elif is evaluated only when it is false
LimitCheck(count, limit) ==
    IF 10 * count >= 9 * limit THEN "warning"
    ELSE IF count >= limit THEN "raise"
    ELSE "ok"

\* _enforce_rate_limit (lines 56-81), called first by make_request (line 86)
\* and again by the call of line 106 after a 429
EnforceRateLimit ==
    /\ opc \in {"idle", "retry"}
    /\ request_count < MaxCalls
    /\ request_count' = request_count + 1
    /\ opc' = IF LimitCheck(request_count', MonthlyLimit) = "raise"
                THEN "ValueError" ELSE "send"
    /\ UNCHANGED http_sent
    /\ UNCHANGED <<wvars, avars, pvars, rvars, tvars, dvars>>

\* requests.get (line 94) and the branches on the status code (lines 101-110);
\* an exception of requests.get returns like a failed request (lines 111-113)
SendRequest ==
    /\ opc = "send"
    /\ http_sent' = http_sent + 1
    /\ \E status \in StatusCodes : opc' = IF status = 429 THEN "retry" ELSE "idle"
    /\ UNCHANGED request_count
    /\ UNCHANGED <<wvars, avars, pvars, rvars, tvars, dvars>>

ONext == EnforceRateLimit \/ SendRequest

SpecOdds == OInit /\ [][ONext]_vars

\* C30: once request_count has reached monthly_limit, _enforce_rate_limit
\* raises ValueError: make_request sends no HTTP request with request_count
\* at or beyond the monthly limit, whatever the sequence of calls and of 429
\* retries.
C30_NoRequestAtMonthlyLimit ==
    /\ opc = "send" => request_count < MonthlyLimit
    /\ http_sent < MonthlyLimit

-----------------------------------------------------------------------------
(* Part VII: run_with_time_weighted_data called again and again.           *)
(*                                                                         *)
(* What a run can find from an earlier one is the module global            *)
(* current_week_param and the dataset files in the working directory; the  *)
(* roster is a Python set, iterated in an order that is not fixed.         *)

\* runs followed in one interpreter
MaxRuns == 3

\* current_week=None, the default of the argument (line 879)
NoWeekArg == 0

\* the arguments and file contents of a run: current_week, the rows of the
\* window, the names of the roster file and the team of each
DetInputs ==
    [current_week : {NoWeekArg, 2},
     rows         : {RowPool, {r \in RowPool : r.player = "p4"}},
     roster       : {{"p1", "p2"}},
     mapping      : {("p1" :> "C" @@ "p2" :> "A")}]

\* the orders in which a set can be iterated
Orders(S) == {o \in [1..Cardinality(S) -> S] : Range(o) = S}

DInit ==
    /\ dpc = "idle"
    /\ current_week_param = 0
    /\ run_input = <<>>
    /\ roster_order = <<>>
    /\ disk = {}
    /\ observed = {}
    /\ WIdle
    /\ AIdle
    /\ PIdle
    /\ RIdle
    /\ TIdle
    /\ OIdle

\* the global kept from the run before when no week is given
WeekParam_KeepGlobal(arg, previous) == IF arg = NoWeekArg THEN previous ELSE arg

\* line 897
WeekParam(arg, previous) == IF arg = NoWeekArg THEN 1 ELSE arg

\* lines 895-906: the global is set, the roster is loaded
StartRun ==
    /\ dpc = "idle"
    /\ Cardinality(observed) < MaxRuns
    /\ \E input \in DetInputs : \E order \in Orders(input.roster) :
          /\ run_input' = [input |-> input, before |-> current_week_param]
          /\ roster_order' = order
          /\ current_week_param' = WeekParam(input.current_week, current_week_param)
    /\ dpc' = "datasets"
    /\ UNCHANGED <<disk, observed>>
    /\ UNCHANGED <<wvars, avars, pvars, rvars, tvars, ovars>>

\* create_player_dataset_from_game_data (lines 517-604) on the rows of the
\* active players
PlayerDataset(rows, roster, mapping) ==
    ValidTeam(DropNaTeam(
        {[name  |-> r.player,
          team  |-> MapTeam(r.player, mapping),
          g     |-> WeeksPlayed(rows, r.player),
          stats |-> GroupStats(GroupOf(rows, r), r.player).stats] : r \in rows}))

\* lines 909-936: the datasets are built from the rows of the players in the
\* roster set (line 47, line 518), written to the working directory and
\* handed to analyze with the week; without an active row the run raises
FinishRun ==
    /\ dpc = "datasets"
    /\ LET input  == run_input.input
           active == ActiveRows(input.rows, Range(roster_order))
           table  == PlayerDataset(active, Range(roster_order), input.mapping)
       IN /\ disk' = IF active = {} THEN disk ELSE table
          /\ observed' = observed \cup
                {[input  |-> input,
                  order  |-> roster_order,
                  before |-> run_input.before,
                  output |-> [week   |-> current_week_param,
                              raised |-> active = {},
                              table  |-> IF active = {} THEN {} ELSE table]]}
    /\ dpc' = "idle"
    /\ UNCHANGED <<current_week_param, run_input, roster_order>>
    /\ UNCHANGED <<wvars, avars, pvars, rvars, tvars, ovars>>

DNext == StartRun \/ FinishRun

SpecRepeat == DInit /\ [][DNext]_vars

=============================================================================
